---- MODULE Spec2Model ----
(***************************************************************************)
(* Model of the media organiser: the file-operation utilities              *)
(* (utils/file_operations.py), the duplicate detector                      *)
(* (core/duplicate_detector.py), the date extractor                        *)
(* (core/date_extractor.py) and the orchestrating MediaOrganiser.process   *)
(* (core/organiser.py).                                                    *)
(*                                                                         *)
(* Text is modelled character by character: a string is a sequence of      *)
(* one-character strings, so that Path.stem / Path.suffix, the f-string    *)
(* formatting of counters and dates, re.search and datetime.strptime are   *)
(* computed the way the Python code computes them.                         *)
(*                                                                         *)
(* The file system is a function from a location (the sequence of path     *)
(* components below the root directory) to an entry.  The tree holds       *)
(* directories, regular files and symbolic links to files.                 *)
(***************************************************************************)
EXTENDS Integers, Sequences, FiniteSets, TLC

VARIABLES
    fs,           \* the file system: location -> entry
    pillow,       \* PILLOW_AVAILABLE of date_extractor.py
    obj,          \* the MediaOrganiser object: options and stats
    pc,           \* where MediaOrganiser.process stands
    media_files,  \* the local media_files of process
    duplicates,   \* the local duplicates of _process_duplicates
    loc,          \* loop locals: index, removed_count, organized_count
    det,          \* the DuplicateDetector: hash_map, duplicates
    dstats,       \* DateExtractor.stats
    call,         \* the last direct call of a utility and what it returned
    hist,         \* history of the current run (what was planned, moved, deleted)
    run,          \* number of process() runs started on this tree
    gui,          \* the MediaOrganizerGUI window: cancel_event, buttons, log
    walk          \* the directory walk a loop of MediaOrganizer.run is iterating over

vars == <<fs, pillow, obj, pc, media_files, duplicates, loc, det, dstats, call, hist, run,
          gui, walk>>

(***************************************************************************)
(* Bounds of the model.                                                    *)
(***************************************************************************)
MaxFiles == 3
MaxCalls == 2
MaxScanLen == 3
MaxRuns == 2
MaxDetectCalls == 3

(***************************************************************************)
(* Characters and numbers.                                                 *)
(***************************************************************************)
Digits == <<"0", "1", "2", "3", "4", "5", "6", "7", "8", "9">>

IsDigit(c) == \E i \in 1..10 : Digits[i] = c

DigitVal(c) == (CHOOSE i \in 1..10 : Digits[i] = c) - 1

RECURSIVE Dec(_)
Dec(n) == IF n < 10 THEN <<Digits[n + 1]>>
          ELSE Dec(n \div 10) \o <<Digits[(n % 10) + 1]>>

Dec02(n) == IF n < 10 THEN <<"0">> \o Dec(n) ELSE Dec(n)

RECURSIVE IntOf(_)
IntOf(s) == IF s = <<>> THEN 0
            ELSE 10 * IntOf(SubSeq(s, 1, Len(s) - 1)) + DigitVal(s[Len(s)])

UpperCase == <<"A", "D", "G", "I", "J", "M", "P", "S", "V">>

LowerCase == <<"a", "d", "g", "i", "j", "m", "p", "s", "v">>

LowerChar(c) == IF \E i \in 1..Len(UpperCase) : UpperCase[i] = c
                THEN LowerCase[CHOOSE i \in 1..Len(UpperCase) : UpperCase[i] = c]
                ELSE c

Lower(s) == [i \in 1..Len(s) |-> LowerChar(s[i])]

(***************************************************************************)
(* pathlib.  A Path is how it is anchored ("abs": absolute and resolved,   *)
(* "rel": as the caller wrote it, e.g. relative to the working directory)  *)
(* and its components below the root directory.  Two Paths are equal when  *)
(* both agree; they name the same location when their parts agree.         *)
(***************************************************************************)
MkPath(anchor, parts) == [anchor |-> anchor, parts |-> parts]

Resolve(p) == MkPath("abs", p.parts)

Front(s) == SubSeq(s, 1, Len(s) - 1)

Parent(p) == IF p.parts = <<>> THEN p ELSE MkPath(p.anchor, Front(p.parts))

Child(p, name) == MkPath(p.anchor, Append(p.parts, name))

Name(p) == IF p.parts = <<>> THEN <<>> ELSE p.parts[Len(p.parts)]

RFindDot(name) == IF \E i \in 1..Len(name) : name[i] = "."
                  THEN CHOOSE i \in 1..Len(name) :
                         /\ name[i] = "."
                         /\ \A j \in (i + 1)..Len(name) : name[j] # "."
                  ELSE 0

Suffix(p) == LET name == Name(p)
                 i == RFindDot(name)
             IN IF 1 < i /\ i < Len(name) THEN SubSeq(name, i, Len(name)) ELSE <<>>

Stem(p) == LET name == Name(p)
               i == RFindDot(name)
           IN IF 1 < i /\ i < Len(name) THEN SubSeq(name, 1, i - 1) ELSE name

(***************************************************************************)
(* The file system.                                                        *)
(***************************************************************************)
DirEntry == [kind |-> "dir", id |-> 0, content |-> "", size |-> 0,
             mtime |-> 0, exif |-> "none", perm |-> "rw"]

FileEntry(id, content, size, mtime, exif, perm) ==
    [kind |-> "file", id |-> id, content |-> content, size |-> size,
     mtime |-> mtime, exif |-> exif, perm |-> perm]

\* A symbolic link: the entry holds the location it points to.  The links of
\* the trees below point to a regular file or to nothing.
LinkEntry(target) ==
    [kind |-> "link", id |-> 0, content |-> "", size |-> 0,
     mtime |-> 0, exif |-> "none", perm |-> "rw", target |-> target]

\* The location a system call that follows symbolic links ends at.
Follow(fsys, parts) ==
    IF parts \in DOMAIN fsys /\ fsys[parts].kind = "link" THEN fsys[parts].target
    ELSE parts

\* Path.exists, Path.is_file and Path.is_dir follow symbolic links.
Exists(fsys, p) == Follow(fsys, p.parts) \in DOMAIN fsys

IsFile(fsys, p) == Exists(fsys, p) /\ fsys[Follow(fsys, p.parts)].kind = "file"

IsDir(fsys, p) == Exists(fsys, p) /\ fsys[Follow(fsys, p.parts)].kind = "dir"

Put(fsys, parts, e) == [q \in DOMAIN fsys \cup {parts} |-> IF q = parts THEN e ELSE fsys[q]]

Remove(fsys, parts) == [q \in DOMAIN fsys \ {parts} |-> fsys[q]]

IsPrefix(s, t) == Len(s) <= Len(t) /\ SubSeq(t, 1, Len(s)) = s

Prefixes(parts) == {SubSeq(parts, 1, n) : n \in 0..Len(parts)}

Listing(fsys, parts) == {q \in DOMAIN fsys : Len(q) = Len(parts) + 1 /\ IsPrefix(parts, q)}

(***************************************************************************)
(* utils/file_operations.py                                                *)
(***************************************************************************)
\* Path.resolve on the file system: absolute, and a symbolic link is
\* replaced by the location it points to.
ResolveIn(fsys, path) == Resolve(MkPath(path.anchor, Follow(fsys, path.parts)))

\* validate_path: resolve, then (must_exist) raise InvalidPathError when missing.
ValidatePath(fsys, path, must_exist) ==
    LET resolved == ResolveIn(fsys, path)
    IN [ok |-> ~(must_exist /\ ~Exists(fsys, resolved)), path |-> resolved]

\* Path.mkdir(parents=True, exist_ok=True): fails when the path, or a
\* component above it, is there and is not a directory; otherwise every
\* missing component is created.
Mkdir(fsys, parts) ==
    IF \E q \in Prefixes(parts) : q \in DOMAIN fsys /\ fsys[q].kind # "dir"
    THEN [ok |-> FALSE, fs |-> fsys]
    ELSE [ok |-> TRUE,
          fs |-> [q \in DOMAIN fsys \cup Prefixes(parts) |->
                    IF q \in DOMAIN fsys THEN fsys[q] ELSE DirEntry]]

\* f"{stem}_{counter}{suffix}"
NumberedName(stem, counter, suffix) == stem \o <<"_">> \o Dec(counter) \o suffix

\* The while loop of get_unique_filename.
RECURSIVE UniqueLoop(_, _, _, _, _, _)
UniqueLoop(fsys, file_path, counter, stem, suffix, parent) ==
    IF Exists(fsys, file_path)
    THEN UniqueLoop(fsys, Child(parent, NumberedName(stem, counter, suffix)),
                    counter + 1, stem, suffix, parent)
    ELSE file_path

\* A variant that numbers from 0.
GetUniqueFilenameFromZero(fsys, file_path) ==
    UniqueLoop(fsys, file_path, 0, Stem(file_path), Suffix(file_path),
               Parent(file_path))

\* get_unique_filename
GetUniqueFilename(fsys, file_path) ==
    UniqueLoop(fsys, file_path, 1, Stem(file_path), Suffix(file_path),
               Parent(file_path))

\* copy2 of the fallback of shutil.move: a new file (an identity above 100
\* marks a copy) with the bytes and the times of the source.
CopyOf(e) == [e EXCEPT !.id = e.id + 100, !.perm = "rw"]

\* shutil.move(src, dst) for a regular file src that exists.
\*   dst is a directory: the file goes inside it, under its own name, and
\*     shutil.Error is raised when that name is taken;
\*   os.rename replaces a file at the destination;
\*   when os.rename is refused (the file sits where entries cannot be
\*     removed) the file is copied to the destination and os.unlink(src)
\*     raises.
ShutilMove(fsys, src, dst) ==
    LET into == IsDir(fsys, dst)
        real_dst == IF into THEN Child(dst, Name(src)) ELSE dst
        e == fsys[src.parts]
    IN  IF into /\ Exists(fsys, real_dst)
        THEN [ok |-> FALSE, fs |-> fsys, real_dst |-> real_dst]
        ELSE IF ~IsDir(fsys, Parent(real_dst))
        THEN [ok |-> FALSE, fs |-> fsys, real_dst |-> real_dst]
        ELSE IF real_dst.parts = src.parts
        THEN [ok |-> TRUE, fs |-> fsys, real_dst |-> real_dst]
        ELSE IF e.perm = "locked"
        THEN [ok |-> FALSE, fs |-> Put(fsys, real_dst.parts, CopyOf(e)),
              real_dst |-> real_dst]
        ELSE [ok |-> TRUE, fs |-> Put(Remove(fsys, src.parts), real_dst.parts, e),
              real_dst |-> real_dst]

\* A variant that moves to the destination whether or not it exists.
SafeMoveFileNoCheck(fsys, source, destination, overwrite) ==
    LET v == ValidatePath(fsys, source, TRUE)
        mk == Mkdir(fsys, Parent(destination).parts)
        mv == ShutilMove(mk.fs, v.path, destination)
    IN  IF ~v.ok \/ ~mk.ok THEN [ok |-> FALSE, fs |-> fsys, path |-> destination]
        ELSE [ok |-> mv.ok, fs |-> mv.fs, path |-> destination]

\* safe_move_file: ok = FALSE stands for FileOperationError.
SafeMoveFile(fsys, source, destination, overwrite) ==
    LET v == ValidatePath(fsys, source, TRUE)
        mk == Mkdir(fsys, Parent(destination).parts)
        dst == IF Exists(mk.fs, destination) /\ ~overwrite
               THEN GetUniqueFilename(mk.fs, destination)
               ELSE destination
        mv == ShutilMove(mk.fs, v.path, dst)
    IN  IF ~v.ok \/ ~mk.ok THEN [ok |-> FALSE, fs |-> fsys, path |-> destination]
        ELSE [ok |-> mv.ok, fs |-> mv.fs, path |-> dst]

\* A variant that reports success and removes nothing.
SafeDeleteFileKeeps(fsys, file_path) == [ok |-> TRUE, fs |-> fsys]

\* safe_delete_file(file_path, secure=False): ok = FALSE stands for
\* FileOperationError.
SafeDeleteFile(fsys, file_path) ==
    LET v == ValidatePath(fsys, file_path, TRUE)
    IN  IF ~v.ok THEN [ok |-> FALSE, fs |-> fsys]
        ELSE IF fsys[v.path.parts].kind # "file" \/ fsys[v.path.parts].perm = "locked"
        THEN [ok |-> FALSE, fs |-> fsys]
        ELSE [ok |-> TRUE, fs |-> Remove(fsys, v.path.parts)]

(***************************************************************************)
(* datetime: calendar dates, datetime.strptime, datetime.fromtimestamp.    *)
(***************************************************************************)
Date(y, m, d) == [y |-> y, m |-> m, d |-> d]

NoDate == Date(0, 0, 0)

IsLeap(y) == y % 4 = 0 /\ (y % 100 # 0 \/ y % 400 = 0)

DaysInMonth(y, m) == IF m = 2 THEN (IF IsLeap(y) THEN 29 ELSE 28)
                     ELSE IF m \in {4, 6, 9, 11} THEN 30 ELSE 31

\* What the datetime constructor accepts (MINYEAR = 1, MAXYEAR = 9999).
ValidDate(dt) == /\ dt.y \in 1..9999
                 /\ dt.m \in 1..12
                 /\ dt.d \in 1..DaysInMonth(dt.y, dt.m)

\* One alternative of a directive's regular expression: len characters, all
\* digits (after a leading blank when blank is set) whose value is in lo..hi.
Alt(len, lo, hi) == [len |-> len, lo |-> lo, hi |-> hi, blank |-> FALSE]

BlankAlt(len, lo, hi) == [len |-> len, lo |-> lo, hi |-> hi, blank |-> TRUE]

\* The alternatives of _strptime.TimeRE, in the order the regex tries them.
Alternatives(tok) ==
    CASE tok = "%Y" -> <<Alt(4, 0, 9999)>>
      [] tok = "%m" -> <<Alt(2, 10, 12), Alt(2, 1, 9), Alt(1, 1, 9)>>
      [] tok = "%d" -> <<Alt(2, 30, 31), Alt(2, 10, 29), Alt(2, 1, 9), Alt(1, 1, 9),
                         BlankAlt(2, 1, 9)>>
      [] tok = "%H" -> <<Alt(2, 20, 23), Alt(2, 0, 19), Alt(1, 0, 9)>>
      [] tok = "%M" -> <<Alt(2, 0, 59), Alt(1, 0, 9)>>
      [] tok = "%S" -> <<Alt(2, 60, 61), Alt(2, 0, 59), Alt(1, 0, 9)>>

IsDirective(tok) == tok \in {"%Y", "%m", "%d", "%H", "%M", "%S"}

AltMatches(a, str) ==
    LET digits == IF a.blank THEN Tail(str) ELSE str
    IN  /\ Len(str) = a.len
        /\ a.blank => str[1] = " "
        /\ \A i \in 1..Len(digits) : IsDigit(digits[i])
        /\ IntOf(digits) \in a.lo..a.hi

AltValue(a, str) == IntOf(IF a.blank THEN Tail(str) ELSE str)

\* Number of blanks of s from position si on.
RECURSIVE BlankRun(_, _)
BlankRun(s, si) == IF si <= Len(s) /\ s[si] = " " THEN 1 + BlankRun(s, si + 1) ELSE 0

StrpDefaults == [Y |-> 1900, m |-> 1, d |-> 1, H |-> 0, M |-> 0, S |-> 0]

StrpFail == [ok |-> FALSE, end |-> 0, f |-> StrpDefaults]

Field(tok) == CASE tok = "%Y" -> "Y" [] tok = "%m" -> "m" [] tok = "%d" -> "d"
                [] tok = "%H" -> "H" [] tok = "%M" -> "M" [] tok = "%S" -> "S"

\* re.match of the format's regular expression against the string from
\* position si on: the first way, in the regex's order of alternatives, to
\* match the whole format.
\* The first result when it is a success, the second otherwise.
OrElse(first, second) == IF first.ok THEN first ELSE second

RECURSIVE StrpParse(_, _, _, _, _)
RECURSIVE StrpAlt(_, _, _, _, _, _)
StrpParse(fmt, fi, s, si, acc) ==
    IF fi > Len(fmt) THEN [ok |-> TRUE, end |-> si, f |-> acc]
    ELSE IF IsDirective(fmt[fi]) THEN StrpAlt(fmt, fi, s, si, acc, 1)
    ELSE IF fmt[fi] = " "
         THEN (IF BlankRun(s, si) = 0 THEN StrpFail
               ELSE StrpParse(fmt, fi + 1, s, si + BlankRun(s, si), acc))
    ELSE IF si <= Len(s) /\ s[si] = fmt[fi] THEN StrpParse(fmt, fi + 1, s, si + 1, acc)
    ELSE StrpFail

StrpAlt(fmt, fi, s, si, acc, k) ==
    LET alts == Alternatives(fmt[fi])
    IN  IF k > Len(alts) THEN StrpFail
        ELSE LET a == alts[k]
                 str == SubSeq(s, si, si + a.len - 1)
             IN  IF si + a.len - 1 <= Len(s) /\ AltMatches(a, str)
                 THEN OrElse(StrpParse(fmt, fi + 1, s, si + a.len,
                                       [acc EXCEPT ![Field(fmt[fi])] = AltValue(a, str)]),
                             StrpAlt(fmt, fi, s, si, acc, k + 1))
                 ELSE StrpAlt(fmt, fi, s, si, acc, k + 1)

\* ok = FALSE stands for ValueError.
ValueError == [ok |-> FALSE, date |-> NoDate]

\* datetime.strptime(date_string, format): the format must match, nothing may
\* remain unconverted, and the fields must make a datetime.
StrptimeOf(r, len) ==
    LET dt == Date(r.f.Y, r.f.m, r.f.d)
    IN  IF ~r.ok \/ r.end # len + 1 THEN ValueError
        ELSE IF ~ValidDate(dt) \/ r.f.S > 59 THEN ValueError
        ELSE [ok |-> TRUE, date |-> dt]

Strptime(date_string, fmt) ==
    StrptimeOf(StrpParse(fmt, 1, date_string, 1, StrpDefaults), Len(date_string))

\* datetime.fromtimestamp(mtime), for mtime >= 0 seconds since the epoch and
\* local time taken as UTC: the civil date of the day number.
FromTimestamp(mtime) ==
    LET z == (mtime \div 86400) + 719468
        era == z \div 146097
        doe == z - era * 146097
        yoe == (doe - doe \div 1460 + doe \div 36524 - doe \div 146096) \div 365
        doy == doe - (365 * yoe + yoe \div 4 - yoe \div 100)
        mp == (5 * doy + 2) \div 153
        d == doy - (153 * mp + 2) \div 5 + 1
        m == IF mp < 10 THEN mp + 3 ELSE mp - 9
        y == yoe + era * 400 + (IF m <= 2 THEN 1 ELSE 0)
    IN  Date(y, m, d)

(***************************************************************************)
(* core/date_extractor.py                                                  *)
(***************************************************************************)
\* A regular expression of DATE_PATTERNS is a sequence of one-character
\* items: "DIGIT" for \d, "SEP" for [-_], or a literal character.  groups
\* gives the first and last item of each capture group.
D4 == <<"DIGIT", "DIGIT", "DIGIT", "DIGIT">>

D2 == <<"DIGIT", "DIGIT">>

FmtYmdDashed == <<"%Y", "-", "%m", "-", "%d">>

FmtYmd == <<"%Y", "%m", "%d">>

FmtDmyDashed == <<"%d", "-", "%m", "-", "%Y">>

FmtExif == <<"%Y", ":", "%m", ":", "%d", " ", "%H", ":", "%M", ":", "%S">>

DATE_PATTERNS ==
    << [re |-> D4 \o <<"SEP">> \o D2 \o <<"SEP">> \o D2,
        groups |-> << <<1, 4>>, <<6, 7>>, <<9, 10>> >>, fmt |-> FmtYmdDashed],
       [re |-> D4 \o D2 \o D2,
        groups |-> << <<1, 4>>, <<5, 6>>, <<7, 8>> >>, fmt |-> FmtYmd],
       [re |-> D2 \o <<"SEP">> \o D2 \o <<"SEP">> \o D4,
        groups |-> << <<1, 2>>, <<4, 5>>, <<7, 10>> >>, fmt |-> FmtDmyDashed],
       [re |-> <<"I", "M", "G", "SEP">> \o D4 \o D2 \o D2,
        groups |-> << <<5, 8>>, <<9, 10>>, <<11, 12>> >>, fmt |-> FmtYmd],
       [re |-> <<"V", "I", "D", "SEP">> \o D4 \o D2 \o D2,
        groups |-> << <<5, 8>>, <<9, 10>>, <<11, 12>> >>, fmt |-> FmtYmd] >>

ItemMatches(item, c) ==
    CASE item = "DIGIT" -> IsDigit(c)
      [] item = "SEP" -> c \in {"-", "_"}
      [] OTHER -> c = item

MatchAt(re, s, i) ==
    /\ i + Len(re) - 1 <= Len(s)
    /\ \A k \in 1..Len(re) : ItemMatches(re[k], s[i + k - 1])

\* re.search(pattern, s): the position of the leftmost match, 0 for None.
Search(re, s) ==
    IF \E i \in 1..Len(s) : MatchAt(re, s, i)
    THEN CHOOSE i \in 1..Len(s) :
            MatchAt(re, s, i) /\ \A j \in 1..(i - 1) : ~MatchAt(re, s, j)
    ELSE 0

\* match.groups()
Groups(pat, s, i) == [g \in 1..Len(pat.groups) |->
                        SubSeq(s, i + pat.groups[g][1] - 1, i + pat.groups[g][2] - 1)]

\* '-'.join(groups)
RECURSIVE Join(_)
Join(groups) == IF Len(groups) = 1 THEN groups[1]
                ELSE groups[1] \o <<"-">> \o Join(Tail(groups))

\* The for loop of _extract_from_filename over the patterns from the i-th on:
\* a match that strptime refuses (ValueError) goes on to the next pattern.
RECURSIVE FilenameLoop(_, _, _)
RECURSIVE FilenameTry(_, _, _, _)
FilenameLoop(patterns, i, filename) ==
    IF i > Len(patterns) THEN ValueError
    ELSE FilenameTry(patterns, i, filename, Search(patterns[i].re, filename))

\* One pattern, matched at position at (0: no match).
FilenameTry(patterns, i, filename, at) ==
    IF at # 0
    THEN OrElse(Strptime(Join(Groups(patterns[i], filename, at)), patterns[i].fmt),
                FilenameLoop(patterns, i + 1, filename))
    ELSE FilenameLoop(patterns, i + 1, filename)

\* The loop with `break` in the place of `continue`.
RECURSIVE FilenameLoopBreak(_, _, _)
FilenameLoopBreak(patterns, i, filename) ==
    IF i > Len(patterns) THEN ValueError
    ELSE LET at == Search(patterns[i].re, filename)
             parsed == Strptime(Join(Groups(patterns[i], filename, at)), patterns[i].fmt)
         IN  IF at # 0 THEN parsed
             ELSE FilenameLoopBreak(patterns, i + 1, filename)

ExtractFromFilenameBreak(file_path) == FilenameLoopBreak(DATE_PATTERNS, 1, Stem(file_path))

\* _extract_from_filename: ok = FALSE stands for None.
ExtractFromFilename(file_path) == FilenameLoop(DATE_PATTERNS, 1, Stem(file_path))

\* The EXIF tags of the images of the model; Absent: the tag is not in the
\* dictionary.  36867 is DateTimeOriginal, 306 is DateTime.
Absent == <<"ABSENT">>

ExifJan5 == <<"2", "0", "2", "3", ":", "0", "1", ":", "0", "5", " ",
              "1", "0", ":", "0", "0", ":", "0", "0">>

ExifMarch15 == <<"2", "0", "2", "4", ":", "0", "3", ":", "1", "5", " ",
                 "0", "9", ":", "3", "0", ":", "0", "0">>

ExifZero == <<"0", "0", "0", "0", ":", "0", "0", ":", "0", "0", " ",
              "0", "0", ":", "0", "0", ":", "0", "0">>

ExifKeys == {"none", "empty", "original", "datetime", "both", "zero_original"}

ExifData(key) ==
    CASE key = "original" -> [t36867 |-> ExifJan5, t306 |-> Absent]
      [] key = "datetime" -> [t36867 |-> Absent, t306 |-> ExifJan5]
      [] key = "both" -> [t36867 |-> ExifJan5, t306 |-> ExifMarch15]
      [] key = "zero_original" -> [t36867 |-> ExifZero, t306 |-> ExifJan5]
      [] OTHER -> [t36867 |-> Absent, t306 |-> Absent]

\* _extract_from_exif: Image.open fails on a file that is missing or cannot
\* be read; `if not exif_data` covers None and the empty dictionary; the first
\* tag present is parsed, and a ValueError of strptime is caught by the
\* except clause of the method.  ok = FALSE stands for None.
ExtractFromExif(fsys, file_path) ==
    IF ~IsFile(fsys, file_path) \/ fsys[file_path.parts].perm = "noread" THEN ValueError
    ELSE LET key == fsys[file_path.parts].exif
             exif_data == ExifData(key)
         IN  IF key \in {"none", "empty"} THEN ValueError
             ELSE IF exif_data.t36867 # Absent THEN Strptime(exif_data.t36867, FmtExif)
             ELSE IF exif_data.t306 # Absent THEN Strptime(exif_data.t306, FmtExif)
             ELSE ValueError

\* A variant without the fallback: always None.
ExtractFromModificationTimeNone(fsys, file_path) == ValueError

\* _extract_from_modification_time: stat fails on a path that is not there.
ExtractFromModificationTime(fsys, file_path) ==
    IF ~Exists(fsys, file_path) THEN ValueError
    ELSE [ok |-> TRUE, date |-> FromTimestamp(fsys[file_path.parts].mtime)]

IMAGE_EXTENSIONS ==
    { <<".", "j", "p", "g">>, <<".", "j", "p", "e", "g">>, <<".", "p", "n", "g">>,
      <<".", "g", "i", "f">>, <<".", "b", "m", "p">>, <<".", "t", "i", "f", "f">>,
      <<".", "w", "e", "b", "p">>, <<".", "h", "e", "i", "c">> }

\* _is_image
IsImage(file_path) == Lower(Suffix(file_path)) \in IMAGE_EXTENSIONS

\* The date of r and the source it came from, when r is a date.
Via(r, via, otherwise) == IF r.ok THEN [date |-> r.date, via |-> via] ELSE otherwise

\* A variant that tries the filename before the EXIF data.
ExtractDateFilenameFirst(fsys, pil, file_path) ==
    Via(ExtractFromFilename(file_path), "filename",
        Via(IF pil /\ IsImage(file_path) THEN ExtractFromExif(fsys, file_path) ELSE ValueError,
            "exif",
            Via(ExtractFromModificationTime(fsys, file_path), "modified",
                [date |-> NoDate, via |-> "failed"])))

\* extract_date: the date and the counter of DateExtractor.stats that is
\* incremented; via = "failed" stands for the return of None.
ExtractDate(fsys, pil, file_path) ==
    Via(IF pil /\ IsImage(file_path) THEN ExtractFromExif(fsys, file_path) ELSE ValueError,
        "exif",
        Via(ExtractFromFilename(file_path), "filename",
            Via(ExtractFromModificationTime(fsys, file_path), "modified",
                [date |-> NoDate, via |-> "failed"])))

(***************************************************************************)
(* core/duplicate_detector.py                                              *)
(***************************************************************************)
\* calculate_file_hash: the digest of the bytes (distinct bytes, distinct
\* digests); ok = FALSE stands for FileOperationError (the file is missing,
\* is a directory or cannot be read).
CalculateFileHash(fsys, file_path) ==
    IF ~IsFile(fsys, file_path) \/ fsys[Follow(fsys, file_path.parts)].perm = "noread"
    THEN [ok |-> FALSE, digest |-> <<>>]
    ELSE [ok |-> TRUE, digest |-> <<"sha256", fsys[Follow(fsys, file_path.parts)].content>>]

\* self.hash_map[file_hash].append(file_path): a dictionary keeps its keys in
\* the order of their first insertion.
HashMapAppend(hash_map, file_hash, file_path) ==
    IF \E k \in 1..Len(hash_map) : hash_map[k].hash = file_hash
    THEN LET k == CHOOSE k \in 1..Len(hash_map) : hash_map[k].hash = file_hash
         IN  [hash_map EXCEPT ![k].files = Append(@, file_path)]
    ELSE Append(hash_map, [hash |-> file_hash, files |-> <<file_path>>])

\* The for loop of scan_files: a file that cannot be hashed is skipped.
RECURSIVE ScanLoop(_, _, _, _)
ScanLoop(fsys, hash_map, files, i) ==
    IF i > Len(files) THEN hash_map
    ELSE LET h == CalculateFileHash(fsys, files[i])
         IN  ScanLoop(fsys,
                      IF h.ok THEN HashMapAppend(hash_map, h.digest, files[i]) ELSE hash_map,
                      files, i + 1)

\* scan_files: hash_map is cleared and filled again; self.duplicates is left
\* as it was.
ScanFiles(fsys, detector, files) ==
    [detector EXCEPT !.hash_map = ScanLoop(fsys, <<>>, files, 1), !.scanned = files]

\* The for loop of find_duplicates over the groups from the k-th on.
RECURSIVE DuplicatesFrom(_, _)
DuplicatesFrom(hash_map, k) ==
    IF k > Len(hash_map) THEN <<>>
    ELSE (IF Len(hash_map[k].files) > 1 THEN Tail(hash_map[k].files) ELSE <<>>)
         \o DuplicatesFrom(hash_map, k + 1)

\* A variant that keeps the last file of each group.
RECURSIVE DuplicatesKeepLast(_, _)
DuplicatesKeepLast(hash_map, k) ==
    IF k > Len(hash_map) THEN <<>>
    ELSE (IF Len(hash_map[k].files) > 1 THEN Front(hash_map[k].files) ELSE <<>>)
         \o DuplicatesKeepLast(hash_map, k + 1)

FindDuplicatesKeepLast(detector) ==
    [detector EXCEPT !.duplicates = DuplicatesKeepLast(detector.hash_map, 1)]

\* find_duplicates: self.duplicates is cleared and filled; a copy is returned.
FindDuplicates(detector) ==
    [detector EXCEPT !.duplicates = DuplicatesFrom(detector.hash_map, 1)]

RECURSIVE SumSizes(_, _, _)
SumSizes(fsys, paths, i) ==
    IF i > Len(paths) THEN 0
    ELSE (IF Exists(fsys, paths[i]) THEN fsys[paths[i].parts].size ELSE 0)
         + SumSizes(fsys, paths, i + 1)

RECURSIVE CountFiles(_, _)
CountFiles(hash_map, k) ==
    IF k > Len(hash_map) THEN 0 ELSE Len(hash_map[k].files) + CountFiles(hash_map, k + 1)

\* get_duplicate_groups
GetDuplicateGroups(detector) == SelectSeq(detector.hash_map, LAMBDA g : Len(g.files) > 1)

\* A variant that counts every file of the groups with more than one file.
GetStatisticsCountGroups(fsys, detector) ==
    [total_files |-> CountFiles(detector.hash_map, 1),
     unique_files |-> Len(detector.hash_map),
     duplicate_count |-> CountFiles(GetDuplicateGroups(detector), 1),
     duplicate_groups |-> Len(GetDuplicateGroups(detector)),
     space_to_free |-> SumSizes(fsys, detector.duplicates, 1)]

\* get_statistics
GetStatistics(fsys, detector) ==
    [total_files |-> CountFiles(detector.hash_map, 1),
     unique_files |-> Len(detector.hash_map),
     duplicate_count |-> Len(detector.duplicates),
     duplicate_groups |-> Len(GetDuplicateGroups(detector)),
     space_to_free |-> SumSizes(fsys, detector.duplicates, 1)]

(***************************************************************************)
(* utils/file_operations.py: scan_media_files, remove_empty_directories.   *)
(***************************************************************************)
MEDIA_EXTENSIONS ==
    IMAGE_EXTENSIONS \cup
    { <<".", "m", "p", "4">>, <<".", "a", "v", "i">>, <<".", "m", "o", "v">>,
      <<".", "m", "k", "v">>, <<".", "w", "m", "v">>, <<".", "f", "l", "v">>,
      <<".", "w", "e", "b", "m">>, <<".", "m", "4", "v">> }

\* file_path.is_file() and file_path.suffix.lower() in extensions
IsMediaFile(fsys, file_path) ==
    IsFile(fsys, file_path) /\ Lower(Suffix(file_path)) \in MEDIA_EXTENSIONS

Below(root, q) == IsPrefix(root, q) /\ q # root

\* The sequences that hold every element of S once.
RECURSIVE Orderings(_)
Orderings(S) ==
    IF S = {} THEN {<<>>}
    ELSE UNION {{<<x>> \o s : s \in Orderings(S \ {x})} : x \in S}

\* The orders in which Path.rglob('*') can yield the locations of s: the
\* entries of a directory come before the entries of the directories below
\* it, and each subtree is yielded in one piece; the order of the entries
\* of one directory is the order of os.scandir, which is arbitrary.
RglobOrder(fsys, s) ==
    \A d \in {q \in DOMAIN fsys : fsys[q].kind = "dir"} :
        LET inside == {i \in 1..Len(s) : Below(d, s[i])}
        IN  /\ \A i, k \in inside : \A j \in i..k : j \in inside
            /\ \A i, j \in inside :
                 (Len(s[i]) = Len(d) + 1 /\ Len(s[j]) > Len(d) + 1) => i < j

\* scan_media_files: ok = FALSE stands for InvalidPathError; lists are the
\* lists the call can return.
ScanMediaFiles(fsys, root_path) ==
    LET v == ValidatePath(fsys, root_path, TRUE)
        found == {q \in DOMAIN fsys :
                    Below(v.path.parts, q) /\ IsMediaFile(fsys, MkPath("abs", q))}
    IN  IF ~v.ok THEN [ok |-> FALSE, lists |-> {}]
        ELSE [ok |-> TRUE,
              lists |-> {[i \in 1..Len(s) |-> MkPath("abs", s[i])] :
                           s \in {t \in Orderings(found) : RglobOrder(fsys, t)}}]

DS_Store == <<".", "D", "S", "_", "S", "t", "o", "r", "e">>

\* A variant that takes only the directories with no entry at all.
RemovableEmptyOnly(fsys, d) == Listing(fsys, d) = {}

\* is_empty or only_ds_store, and the unlink of the .DS_Store entry succeeds.
Removable(fsys, d) ==
    LET contents == Listing(fsys, d)
    IN  \/ contents = {}
        \/ /\ Cardinality(contents) = 1
           /\ \A q \in contents : /\ q[Len(q)] = DS_Store
                                  /\ fsys[q].kind = "file"
                                  /\ fsys[q].perm # "locked"

\* The directories of depth k below root that os.walk(topdown=False) visits:
\* each is listed again when it is visited and removed when Removable.
PruneLevel(fsys, root, k) ==
    LET gone == {d \in DOMAIN fsys : /\ fsys[d].kind = "dir"
                                     /\ Len(d) = k
                                     /\ IsPrefix(root, d)
                                     /\ Removable(fsys, d)}
        lost == gone \cup UNION {Listing(fsys, d) : d \in gone}
    IN  [fs |-> [q \in DOMAIN fsys \ lost |-> fsys[q]], n |-> Cardinality(gone)]

\* Bottom-up: the deepest directories first, the root last.
RECURSIVE PruneWalk(_, _, _, _)
PruneWalk(fsys, root, k, removed_count) ==
    IF k < Len(root) THEN [fs |-> fsys, removed_count |-> removed_count]
    ELSE LET r == PruneLevel(fsys, root, k)
         IN  PruneWalk(r.fs, root, k - 1, removed_count + r.n)

Depth(fsys) == CHOOSE n \in {Len(q) : q \in DOMAIN fsys} \cup {0} :
                 \A q \in DOMAIN fsys : Len(q) <= n

\* remove_empty_directories: the tree that is left and the number returned.
RemoveEmptyDirectories(fsys, root_path) ==
    LET v == ValidatePath(fsys, root_path, TRUE)
    IN  IF ~v.ok THEN [fs |-> fsys, removed_count |-> 0]
        ELSE PruneWalk(fsys, v.path.parts, Depth(fsys), 0)

(***************************************************************************)
(* core/organiser.py                                                       *)
(***************************************************************************)
\* A variant with f"{date.month}" and f"{date.day}": no padding.
GetDestinationDirectoryUnpadded(o, date) ==
    CASE o.organize_mode = "year" -> Child(o.root_path, Dec(date.y))
      [] o.organize_mode = "year_month" ->
            Child(Child(o.root_path, Dec(date.y)), Dec(date.m))
      [] o.organize_mode = "year_month_day" ->
            Child(Child(Child(o.root_path, Dec(date.y)), Dec(date.m)), Dec(date.d))
      [] OTHER -> o.root_path

\* _get_destination_directory
GetDestinationDirectory(o, date) ==
    CASE o.organize_mode = "year" -> Child(o.root_path, Dec(date.y))
      [] o.organize_mode = "year_month" ->
            Child(Child(o.root_path, Dec(date.y)), Dec02(date.m))
      [] o.organize_mode = "year_month_day" ->
            Child(Child(Child(o.root_path, Dec(date.y)), Dec02(date.m)), Dec02(date.d))
      [] OTHER -> o.root_path

\* The body of the for loop of _organize_files for one file, without the
\* dry-run branch: the file is always moved.
OrganizeOneAlwaysMoves(fsys, o, file_path, d) ==
    LET dest_dir == GetDestinationDirectory(o, d.date)
        dest_path == Child(dest_dir, Name(file_path))
        mv == SafeMoveFile(fsys, file_path, dest_path, FALSE)
    IN  IF d.via = "failed"
        THEN [fs |-> fsys, via |-> d.via, outcome |-> "no_date", dst |-> file_path]
        ELSE IF Parent(file_path) = dest_dir
        THEN [fs |-> fsys, via |-> d.via, outcome |-> "in_place", dst |-> dest_path]
        ELSE IF mv.ok
        THEN [fs |-> mv.fs, via |-> d.via, outcome |-> "organized", dst |-> mv.path]
        ELSE [fs |-> mv.fs, via |-> d.via, outcome |-> "error", dst |-> mv.path]

\* The body of the for loop of _organize_files for one file, d being what
\* extract_date returned: the tree that is left, the source of the date, what happened ("no_date": continue
\* without a date; "in_place": continue, the parent is the destination
\* directory; "organized": organized_count += 1; "error": a
\* FileOperationError was caught) and the destination path.
OrganizeOne(fsys, o, file_path, d) ==
    LET dest_dir == GetDestinationDirectory(o, d.date)
        dest_path == Child(dest_dir, Name(file_path))
        mv == SafeMoveFile(fsys, file_path, dest_path, FALSE)
    IN  IF d.via = "failed"
        THEN [fs |-> fsys, via |-> d.via, outcome |-> "no_date", dst |-> file_path]
        ELSE IF Parent(file_path) = dest_dir
        THEN [fs |-> fsys, via |-> d.via, outcome |-> "in_place", dst |-> dest_path]
        ELSE IF o.dry_run
        THEN [fs |-> fsys, via |-> d.via, outcome |-> "organized", dst |-> dest_path]
        ELSE IF mv.ok
        THEN [fs |-> mv.fs, via |-> d.via, outcome |-> "organized", dst |-> mv.path]
        ELSE [fs |-> mv.fs, via |-> d.via, outcome |-> "error", dst |-> mv.path]

\* Where process goes after the duplicates: lines 96-101.
AfterDuplicates(o) == IF o.organize_mode # "none" THEN "organize" ELSE "cleanup"

(***************************************************************************)
(* file_organiser.py: class MediaOrganizer, the organizer the window of    *)
(* gui_file_organiser.py runs.                                             *)
(***************************************************************************)
\* get_file_hash: ok = FALSE stands for None (and one more error).
MO_GetFileHash(fsys, filepath) ==
    IF ~IsFile(fsys, filepath) \/ fsys[filepath.parts].perm = "noread"
    THEN [ok |-> FALSE, digest |-> <<>>]
    ELSE [ok |-> TRUE, digest |-> <<"sha256", fsys[filepath.parts].content>>]

\* The for loop of find_duplicates over the files from the i-th on: the
\* groups by hash and the number of files that could not be hashed.
RECURSIVE MO_HashLoop(_, _, _, _, _)
MO_HashLoop(fsys, files, i, hash_dict, errors) ==
    IF i > Len(files) THEN [hash_dict |-> hash_dict, errors |-> errors]
    ELSE LET h == MO_GetFileHash(fsys, files[i])
         IN  MO_HashLoop(fsys, files, i + 1,
                         IF h.ok THEN HashMapAppend(hash_dict, h.digest, files[i])
                         ELSE hash_dict,
                         IF h.ok THEN errors ELSE errors + 1)

\* get_exif_date: ok = FALSE stands for None.
MO_GetExifDate(fsys, pil, filepath) ==
    IF ~pil THEN ValueError
    ELSE IF ~IsFile(fsys, filepath) \/ fsys[filepath.parts].perm = "noread" THEN ValueError
    ELSE LET exifdata == ExifData(fsys[filepath.parts].exif)
         IN  IF exifdata.t36867 # Absent THEN Strptime(exifdata.t36867, FmtExif)
             ELSE IF exifdata.t306 # Absent THEN Strptime(exifdata.t306, FmtExif)
             ELSE ValueError

\* The patterns of extract_date_from_filename.
MO_Patterns ==
    << [re |-> D4 \o <<"SEP">> \o D2 \o <<"SEP">> \o D2,
        groups |-> << <<1, 4>>, <<6, 7>>, <<9, 10>> >>],
       [re |-> D4 \o D2 \o D2,
        groups |-> << <<1, 4>>, <<5, 6>>, <<7, 8>> >>],
       [re |-> D2 \o <<"SEP">> \o D2 \o <<"SEP">> \o D4,
        groups |-> << <<1, 2>>, <<4, 5>>, <<7, 10>> >>],
       [re |-> <<"I", "M", "G", "SEP">> \o D4 \o D2 \o D2,
        groups |-> << <<5, 8>>, <<9, 10>>, <<11, 12>> >>] >>

\* datetime(year, month, day) of the groups g: year first when the first
\* group has four characters, day first otherwise.
MO_GroupsDate(g) ==
    IF Len(g[1]) = 4 THEN Date(IntOf(g[1]), IntOf(g[2]), IntOf(g[3]))
    ELSE Date(IntOf(g[3]), IntOf(g[2]), IntOf(g[1]))

\* The for loop of extract_date_from_filename from the i-th pattern on: a
\* match that is no calendar date (ValueError) goes on to the next pattern.
RECURSIVE MO_FilenameLoop(_, _, _)
RECURSIVE MO_FilenameTry(_, _, _, _)
MO_FilenameLoop(patterns, i, filename) ==
    IF i > Len(patterns) THEN ValueError
    ELSE MO_FilenameTry(patterns, i, filename, Search(patterns[i].re, filename))

MO_FilenameTry(patterns, i, filename, at) ==
    IF at # 0 /\ ValidDate(MO_GroupsDate(Groups(patterns[i], filename, at)))
    THEN [ok |-> TRUE, date |-> MO_GroupsDate(Groups(patterns[i], filename, at))]
    ELSE MO_FilenameLoop(patterns, i + 1, filename)

\* extract_date_from_filename(filename)
MO_ExtractDateFromFilename(filename) == MO_FilenameLoop(MO_Patterns, 1, filename)

\* datetime.now() of get_file_date: the day of the run.
Today == Date(2026, 11, 1)

\* get_file_date: EXIF for an image, then the name, then the modification
\* time, then the present day.
MO_GetFileDate(fsys, pil, filepath) ==
    Via(IF Lower(Suffix(filepath)) \in IMAGE_EXTENSIONS
        THEN MO_GetExifDate(fsys, pil, filepath) ELSE ValueError,
        "exif",
        Via(MO_ExtractDateFromFilename(Name(filepath)), "filename",
            Via(ExtractFromModificationTime(fsys, filepath), "modified",
                [date |-> Today, via |-> "now"])))

\* organize_files, lines 190-197: the target folder.
MO_TargetFolder(o, file_date) ==
    CASE o.organize_mode = "year" -> Child(o.root_path, Dec(file_date.y))
      [] o.organize_mode = "year_month" ->
            Child(Child(o.root_path, Dec(file_date.y)), Dec02(file_date.m))
      [] o.organize_mode = "year_month_day" ->
            Child(Child(Child(o.root_path, Dec(file_date.y)), Dec02(file_date.m)),
                  Dec02(file_date.d))

\* organize_files, lines 186-226: the body of the loop for a media file.
\* "in_place": continue; "raised": mkdir raised, which ends run;
\* "would_move": the dry-run print; "moved": rename succeeded; "error": rename
\* raised and was caught.
MO_OrganizeOne(fsys, o, filepath, file_date) ==
    LET target_folder == MO_TargetFolder(o, file_date)
        mk == IF o.dry_run THEN [ok |-> TRUE, fs |-> fsys]
              ELSE Mkdir(fsys, target_folder.parts)
        target_path == GetUniqueFilename(mk.fs, Child(target_folder, Name(filepath)))
    IN  IF Parent(filepath) = target_folder
        THEN [fs |-> fsys, outcome |-> "in_place", dst |-> filepath]
        ELSE IF ~mk.ok
        THEN [fs |-> fsys, outcome |-> "raised", dst |-> filepath]
        ELSE IF o.dry_run
        THEN [fs |-> fsys, outcome |-> "would_move", dst |-> target_path]
        ELSE IF fsys[filepath.parts].perm = "locked"
        THEN [fs |-> mk.fs, outcome |-> "error", dst |-> target_path]
        ELSE [fs |-> Put(Remove(mk.fs, filepath.parts), target_path.parts,
                         fsys[filepath.parts]),
              outcome |-> "moved", dst |-> target_path]

\* remove_empty_folders, lines 245-282: the body of the loop for the folder
\* d.  "gone": FileNotFoundError; "kept": the folder holds something;
\* "would_remove": the dry-run prints; "removed": .DS_Store and the folder
\* are removed; "error": os.remove or os.rmdir raised.
MO_RemoveFolderOne(fsys, o, d) ==
    LET contents == Listing(fsys, d)
        is_empty == contents = {}
        only_ds_store == Cardinality(contents) = 1
                         /\ \A q \in contents : q[Len(q)] = DS_Store
        stuck == \E q \in contents : fsys[q].kind = "dir" \/ fsys[q].perm = "locked"
    IN  IF d \notin DOMAIN fsys THEN [fs |-> fsys, outcome |-> "gone"]
        ELSE IF ~(is_empty \/ only_ds_store) THEN [fs |-> fsys, outcome |-> "kept"]
        ELSE IF o.dry_run THEN [fs |-> fsys, outcome |-> "would_remove"]
        ELSE IF only_ds_store /\ stuck THEN [fs |-> fsys, outcome |-> "error"]
        ELSE [fs |-> [q \in DOMAIN fsys \ ({d} \cup contents) |-> fsys[q]],
              outcome |-> "removed"]

(***************************************************************************)
(* Names, dates and trees the model starts from.                           *)
(***************************************************************************)
Jpg == <<".", "j", "p", "g">>

Mp4 == <<".", "m", "p", "4">>

NPhoto == <<"p", "h", "o", "t", "o">> \o Jpg

NPhoto1 == <<"p", "h", "o", "t", "o", "_", "1">> \o Jpg

NPhoto2 == <<"p", "h", "o", "t", "o", "_", "2">> \o Jpg

NT == <<"t">> \o Jpg

NNone == <<"n", "o", "n", "e">> \o Jpg

NZ == <<"z">> \o Jpg

DirD == <<"d">>

DirS == <<"s">>

DirN == <<"n">>

DirE == <<"e">>

\* Modification times: midnight of 2024-03-15 and of 2023-01-05, in seconds.
March15 == 19797 * 86400

Jan5 == 19362 * 86400

\* Midnight of 2023-11-25.
Nov25 == 19686 * 86400

\* A tree: the root, the given files, the directories above them and the
\* given extra directories.
TreeOf(files, dirs) ==
    LET fileParts == {f.parts : f \in files}
        dirParts == UNION {Prefixes(Front(f.parts)) : f \in files}
                    \cup UNION {Prefixes(d) : d \in dirs} \cup {<<>>}
    IN  [q \in fileParts \cup dirParts |->
           IF q \in fileParts THEN (CHOOSE f \in files : f.parts = q).entry
           ELSE DirEntry]

At(parts, e) == [parts |-> parts, entry |-> e]

WellFormedTree(files) ==
    /\ \A f, g \in files : f.parts = g.parts => f = g
    /\ \A f, g \in files : f # g => ~IsPrefix(f.parts, g.parts)
    /\ \A f, g \in files : f # g => f.entry.id # g.entry.id

SubsetsUpTo(S, n) == {T \in SUBSET S : Cardinality(T) <= n}

(***************************************************************************)
(* Direct calls of the utilities: safe_move_file, get_unique_filename.     *)
(***************************************************************************)
EmptyFs == [q \in {} |-> DirEntry]

NoPath == MkPath("abs", <<>>)

\* What get_statistics returns for a detector that has scanned nothing.
NoStats == [total_files |-> 0, unique_files |-> 0, duplicate_count |-> 0,
            duplicate_groups |-> 0, space_to_free |-> 0]

NoCall == [op |-> "none", source |-> NoPath, destination |-> NoPath,
           overwrite |-> FALSE, ok |-> TRUE, result |-> NoPath, pre |-> EmptyFs, n |-> 0,
           date |-> [date |-> NoDate, via |-> "failed"], files |-> <<>>,
           stats |-> NoStats, ops |-> <<>>]

OpsFiles ==
    { At(<<DirD, NPhoto>>, FileEntry(1, "c1", 1, March15, "none", "rw")),
      At(<<DirD, NPhoto1>>, FileEntry(2, "c2", 2, March15, "none", "rw")),
      At(<<DirS, NPhoto>>, FileEntry(3, "c3", 3, March15, "none", "rw")),
      At(<<DirS, NT>>, FileEntry(4, "c1", 1, March15, "none", "locked")),
      At(<<DirS, NZ>>, FileEntry(5, "c2", 2, Jan5, "none", "rw")) }

OpsSources == {<<DirS, NPhoto>>, <<DirS, NT>>, <<DirS, NZ>>, <<DirS, NNone>>}

OpsDestinations ==
    { <<DirD, NPhoto>>, <<DirS, NPhoto>>, <<DirD>>, <<DirD, NPhoto, NZ>>,
      <<DirN, DirE, NPhoto>> }

Anchors == {"abs", "rel"}

IdleObj == [root_path |-> NoPath, organize_mode |-> "none", remove_duplicates |-> FALSE,
            dry_run |-> FALSE,
            stats |-> [total_files |-> 0, duplicates_found |-> 0, duplicates_removed |-> 0,
                       files_organized |-> 0, empty_folders_removed |-> 0,
                       space_freed |-> 0, errors |-> 0]]

IdleLoc == [idx |-> 0, removed_count |-> 0, organized_count |-> 0]

IdleDet == [hash_map |-> <<>>, duplicates |-> <<>>, scanned |-> <<>>]

IdleDstats == [exif |-> 0, filename |-> 0, modified |-> 0, failed |-> 0]

\* The window before Run is pressed; no walk going on.
IdleGui == [cancel_event |-> FALSE, worker |-> "none", log |-> <<>>, cancel_at |-> -1,
            error |-> FALSE]

IdleWalk == [stack |-> <<>>, yielded |-> {}, changed |-> FALSE]

IdleHist == [fs0 |-> EmptyFs, scan |-> <<>>, plans |-> <<>>, deleted |-> {}, failed |-> {},
             tried |-> <<>>, vanished |-> {}, ops |-> <<>>, phases |-> <<>>,
             dry |-> [stats |-> IdleObj.stats, scan |-> <<>>, duplicates |-> <<>>]]

\* One entry of hist.tried: a loop of process took up a file.
Tried(phase, path, failure) == [phase |-> phase, path |-> path, failure |-> failure]

InitFileOps ==
    /\ fs \in {TreeOf(S, {<<DirD>>}) : S \in {T \in SubsetsUpTo(OpsFiles, MaxFiles) : WellFormedTree(T)}}
    /\ pillow = FALSE
    /\ obj = IdleObj
    /\ pc = "ops"
    /\ media_files = <<>>
    /\ duplicates = <<>>
    /\ loc = IdleLoc
    /\ det = IdleDet
    /\ dstats = IdleDstats
    /\ call = NoCall
    /\ hist = IdleHist
    /\ run = 0
    /\ gui = IdleGui
    /\ walk = IdleWalk

OpsUnchanged == UNCHANGED <<pillow, obj, pc, media_files, duplicates, loc, det, dstats, hist, run, gui, walk>>

\* safe_move_file(source, destination, overwrite) on a regular file, or on a
\* path that is not there.
MoveCall ==
    /\ call.n < MaxCalls
    /\ \E src \in OpsSources, dst \in OpsDestinations, ow \in BOOLEAN, a \in Anchors :
         LET source == MkPath(a, src)
             destination == MkPath(a, dst)
             r == SafeMoveFile(fs, source, destination, ow)
         IN  /\ fs' = r.fs
             /\ call' = [op |-> "move", source |-> source, destination |-> destination,
                         overwrite |-> ow, ok |-> r.ok, result |-> r.path, pre |-> fs,
                         n |-> call.n + 1, date |-> NoCall.date, files |-> <<>>,
                         stats |-> NoStats, ops |-> <<>>]
    /\ OpsUnchanged

\* get_unique_filename(file_path)
UniqueCall ==
    /\ call.n < MaxCalls
    /\ \E dst \in OpsDestinations \cup {<<DirD, NPhoto1>>}, a \in Anchors :
         LET file_path == MkPath(a, dst)
         IN  call' = [op |-> "unique", source |-> file_path, destination |-> file_path,
                      overwrite |-> FALSE, ok |-> TRUE,
                      result |-> GetUniqueFilename(fs, file_path), pre |-> fs,
                      n |-> call.n + 1, date |-> NoCall.date, files |-> <<>>,
                         stats |-> NoStats, ops |-> <<>>]
    /\ UNCHANGED fs
    /\ OpsUnchanged

NextFileOps == MoveCall \/ UniqueCall

SpecFileOps == InitFileOps /\ [][NextFileOps]_vars

(***************************************************************************)
(* Calls of remove_empty_directories on trees with nested directories.      *)
(***************************************************************************)
\* A chain of three directories, .DS_Store files that can and cannot be
\* removed, photos at the root and deep in the chain, an empty directory
\* named .DS_Store.
PruneFiles ==
    { At(<<DirN, DirE, DirD, DS_Store>>, FileEntry(1, "c3", 1, Jan5, "none", "rw")),
      At(<<DirN, DS_Store>>, FileEntry(2, "c3", 1, Jan5, "none", "rw")),
      At(<<DirN, DirE, NPhoto>>, FileEntry(3, "c1", 1, March15, "none", "rw")),
      At(<<DirS, DS_Store>>, FileEntry(4, "c3", 1, Jan5, "none", "locked")),
      At(<<DS_Store>>, FileEntry(5, "c3", 1, Jan5, "none", "rw")),
      At(<<NPhoto>>, FileEntry(6, "c1", 1, March15, "none", "rw")) }

PruneDirs ==
    { At(<<DirN, DirE, DirD>>, DirEntry), At(<<DirS>>, DirEntry),
      At(<<DirD, DS_Store>>, DirEntry) }

PruneTrees ==
    { TreeOf(S \cap PruneFiles, {d.parts : d \in S \cap PruneDirs}) :
        S \in SubsetsUpTo(PruneFiles \cup PruneDirs, MaxFiles) }

PruneRoots == {<<>>, <<DirN>>, <<DirS>>}

InitPrune ==
    /\ fs \in PruneTrees
    /\ pillow = FALSE
    /\ obj = IdleObj
    /\ pc = "ops"
    /\ media_files = <<>>
    /\ duplicates = <<>>
    /\ loc = IdleLoc
    /\ det = IdleDet
    /\ dstats = IdleDstats
    /\ call = NoCall
    /\ hist = IdleHist
    /\ run = 0
    /\ gui = IdleGui
    /\ walk = IdleWalk

\* remove_empty_directories(root_path); call.ok tells that no warning of
\* line 238 was logged: a directory whose removal fails is left holding
\* nothing but a .DS_Store entry that cannot be unlinked.
PruneCall ==
    /\ call.n < MaxCalls
    /\ \E root \in PruneRoots, a \in Anchors :
       \E r \in {RemoveEmptyDirectories(fs, MkPath(a, root))} :
         /\ fs' = r.fs
         /\ call' = [op |-> "prune", source |-> MkPath(a, root),
                     destination |-> MkPath(a, root), overwrite |-> FALSE,
                     ok |-> \A q \in DOMAIN r.fs :
                              (IsPrefix(root, q) /\ q # root /\ q[Len(q)] = DS_Store
                                 /\ r.fs[q].perm = "locked") =>
                                  Cardinality(Listing(r.fs, Front(q))) > 1,
                     result |-> MkPath(a, root), pre |-> fs, n |-> call.n + 1,
                     date |-> NoCall.date, files |-> <<>>, stats |-> NoStats,
                     ops |-> <<>>]
         /\ loc' = [loc EXCEPT !.removed_count = r.removed_count]
    /\ UNCHANGED <<pillow, obj, pc, media_files, duplicates, det, dstats, hist, run, gui, walk>>

NextPrune == PruneCall

SpecPrune == InitPrune /\ [][NextPrune]_vars

\* The directories of a tree at or below root.
DirsBelow(fsys, root) == {d \in DOMAIN fsys : fsys[d].kind = "dir" /\ IsPrefix(root, d)}

\* Directory d holds nothing, or nothing but an entry named .DS_Store.
EmptyOrOnlyDsStore(fsys, d) ==
    \/ Listing(fsys, d) = {}
    \/ /\ Cardinality(Listing(fsys, d)) = 1
       /\ \A q \in Listing(fsys, d) : q[Len(q)] = DS_Store

\* C21: after remove_empty_directories(root) without a removal error, no
\* directory below root is empty or holds only .DS_Store, every directory
\* with a file of another name somewhere inside is kept together with those
\* files, and the number returned is the number of directories removed.
C21_EmptyDirectoriesCollapsed ==
    call.op = "prune" =>
        LET root == Resolve(call.source).parts
            before == DirsBelow(call.pre, root)
            after == DirsBelow(fs, root)
        IN  /\ call.ok =>
                  \A d \in after : d # root => ~EmptyOrOnlyDsStore(fs, d)
            /\ \A q \in DOMAIN call.pre :
                  (call.pre[q].kind = "file" /\ q[Len(q)] # DS_Store) =>
                      /\ q \in DOMAIN fs /\ fs[q] = call.pre[q]
                      /\ \A d \in before : IsPrefix(d, q) => d \in after
            /\ after \subseteq before
            /\ loc.removed_count = Cardinality(before \ after)

\* n/e/d/.DS_Store in a chain of three directories: all three are removed
\* by one call on the root, and 3 is returned.
C21_Witness ==
    /\ call.op = "prune" /\ call.ok /\ call.n = 1
    /\ call.source.parts = <<>>
    /\ <<DirN, DirE, DirD, DS_Store>> \in DOMAIN call.pre
    /\ <<NPhoto>> \in DOMAIN fs
    /\ <<DirN>> \notin DOMAIN fs
    /\ loc.removed_count = 3

\* C28: remove_empty_directories(root) leaves root in place whatever it
\* holds: the root directory of the call exists after the call.
C28_RootIsKept ==
    (call.op = "prune" /\ IsDir(call.pre, call.source)) => IsDir(fs, call.source)

\* C1 (no-overwrite): after safe_move_file(source, destination,
\* overwrite=False), the path the file was moved to did not exist right
\* before the call, and every file that existed before the call, other than
\* the source, is still where it was with the same content.
C1_NoOverwrite ==
    (call.op = "move" /\ ~call.overwrite) =>
        /\ call.ok => /\ call.result.parts \notin DOMAIN call.pre
                      /\ IsFile(fs, call.result)
                      /\ fs[call.result.parts] = call.pre[call.source.parts]
        /\ \A q \in DOMAIN call.pre :
              (call.pre[q].kind = "file" /\ q # call.source.parts) =>
                  (q \in DOMAIN fs /\ fs[q] = call.pre[q])

\* A move whose destination was taken: the file went to a numbered name and
\* the file that was at the destination is untouched.
C1_Witness ==
    /\ call.op = "move" /\ ~call.overwrite /\ call.ok
    /\ call.destination.parts \in DOMAIN call.pre
    /\ call.pre[call.destination.parts].kind = "file"
    /\ call.destination.parts # call.source.parts
    /\ call.result # call.destination

\* The k-th candidate of get_unique_filename for file_path.
Numbered(file_path, k) ==
    Child(Parent(file_path), Stem(file_path) \o <<"_">> \o Dec(k) \o Suffix(file_path))

\* C3: get_unique_filename(p) is p when p does not exist, and otherwise
\* parent/<stem>_<k><suffix> for the smallest k >= 1 that does not exist.
C3_UniqueFilename ==
    call.op = "unique" =>
        LET p == call.source
        IN  IF ~Exists(call.pre, p) THEN call.result = p
            ELSE \E k \in 1..(Cardinality(DOMAIN call.pre) + 1) :
                    /\ call.result = Numbered(p, k)
                    /\ ~Exists(call.pre, Numbered(p, k))
                    /\ \A j \in 1..(k - 1) : Exists(call.pre, Numbered(p, j))

\* photo.jpg and photo_1.jpg are taken: the third becomes photo_2.jpg.
C3_Witness ==
    /\ call.op = "unique"
    /\ call.source.parts = <<DirD, NPhoto>>
    /\ <<DirD, NPhoto>> \in DOMAIN call.pre
    /\ <<DirD, NPhoto1>> \in DOMAIN call.pre
    /\ call.result.parts = <<DirD, NPhoto2>>

(***************************************************************************)
(* Direct calls of DateExtractor.extract_date and _extract_from_filename   *)
(* on one file drawn at the start.                                         *)
(***************************************************************************)
NImgTime == <<"I", "M", "G", "_", "2", "0", "2", "4", "0", "3", "1", "5", "_", "1", "0", "0", "0", "0", "0">> \o Jpg

NImg == <<"I", "M", "G", "_", "2", "0", "2", "4", "0", "3", "1", "5">> \o Jpg

NVid == <<"V", "I", "D", "_", "2", "0", "2", "4", "0", "3", "1", "5">> \o Mp4

NCompact == <<"2", "0", "2", "4", "0", "3", "1", "5">> \o Jpg

NDashed == <<"p", "h", "o", "t", "o", "_", "2", "0", "2", "4", "-", "0", "3", "-", "1", "5">> \o Jpg

NMonth13 == <<"2", "0", "2", "4", "_", "1", "3", "_", "1", "5">> \o Jpg

NFeb30 == <<"2", "0", "2", "4", "-", "0", "2", "-", "3", "0">> \o Jpg

NDmy == <<"1", "5", "-", "0", "3", "-", "2", "0", "2", "4">> \o Jpg

NMonth13Dmy == <<"2", "0", "2", "4", "_", "1", "3", "_", "1", "5", "_", "1", "5", "-", "0", "3", "-", "2", "0", "2", "3">> \o Jpg

NX == <<"x">> \o Jpg

NYear0 == <<"0", "0", "0", "0", "-", "0", "1", "-", "0", "1">> \o Jpg

NDmyBad == <<"4", "5", "-", "1", "3", "-", "2", "0", "2", "4">> \o Jpg

NCompactDmy == <<"2", "0", "2", "4", "0", "3", "1", "5", "_", "1", "5", "-", "0", "3", "-", "2", "0", "2", "3">> \o Jpg

DateNames == {NImgTime, NImg, NVid, NCompact, NDashed, NMonth13, NFeb30, NDmy,
              NMonth13Dmy, NX, NYear0, NDmyBad, NCompactDmy}

InitDate ==
    /\ \E name \in DateNames, key \in ExifKeys, ts \in {March15, Jan5},
          perm \in {"rw", "noread"}, present \in BOOLEAN :
         /\ fs = IF present
                 THEN TreeOf({At(<<name>>, FileEntry(1, "c1", 1, ts, key, perm))}, {})
                 ELSE TreeOf({}, {})
         /\ call = [NoCall EXCEPT !.source = MkPath("abs", <<name>>)]
    /\ pillow \in BOOLEAN
    /\ obj = IdleObj
    /\ pc = "date"
    /\ media_files = <<>>
    /\ duplicates = <<>>
    /\ loc = IdleLoc
    /\ det = IdleDet
    /\ dstats = IdleDstats
    /\ hist = IdleHist
    /\ run = 0
    /\ gui = IdleGui
    /\ walk = IdleWalk

DateUnchanged == UNCHANGED <<fs, pillow, obj, pc, media_files, duplicates, loc, det, hist, run, gui, walk>>

\* extract_date(file_path)
ExtractCall ==
    /\ call.op = "none"
    /\ LET r == ExtractDate(fs, pillow, call.source)
       IN  /\ call' = [call EXCEPT !.op = "extract", !.date = r, !.n = 1]
           /\ dstats' = [dstats EXCEPT ![r.via] = @ + 1]
    /\ DateUnchanged

\* _extract_from_filename(file_path)
FilenameCall ==
    /\ call.op = "none"
    /\ LET r == ExtractFromFilename(call.source)
       IN  call' = [call EXCEPT !.op = "filename", !.n = 1,
                                !.date = [date |-> r.date,
                                          via |-> IF r.ok THEN "filename" ELSE "failed"]]
    /\ UNCHANGED dstats
    /\ DateUnchanged

NextDate == ExtractCall \/ FilenameCall

SpecDate == InitDate /\ [][NextDate]_vars

PatternFields(pat, stem) ==
    LET g == Groups(pat, stem, Search(pat.re, stem))
    IN  IF pat.fmt[1] = "%Y" THEN Date(IntOf(g[1]), IntOf(g[2]), IntOf(g[3]))
        ELSE Date(IntOf(g[3]), IntOf(g[2]), IntOf(g[1]))

InvalidMatch(pat, stem) == Search(pat.re, stem) # 0 /\ ~ValidDate(PatternFields(pat, stem))

ValidMatch(pat, stem) == Search(pat.re, stem) # 0 /\ ValidDate(PatternFields(pat, stem))

Without(seq, i) == SubSeq(seq, 1, i - 1) \o SubSeq(seq, i + 1, Len(seq))

\* C9: a pattern that matches with fields that are no calendar date counts
\* as no match: _extract_from_filename returns what it returns without that
\* pattern, never the invalid date, and when no pattern gives a valid date
\* extract_date goes on to the modification time.
C9_InvalidFallsThrough ==
    \A i \in 1..Len(DATE_PATTERNS) :
        LET stem == Stem(call.source)
            pat == DATE_PATTERNS[i]
            others == FilenameLoop(Without(DATE_PATTERNS, i), 1, stem)
        IN  (call.op \in {"extract", "filename"} /\ InvalidMatch(pat, stem)) =>
              /\ call.date.via = "filename" =>
                    /\ ValidDate(call.date.date)
                    /\ call.date.date # PatternFields(pat, stem)
                    /\ others.ok /\ call.date.date = others.date
              /\ call.op = "filename" => (call.date.via = "failed" <=> ~others.ok)
              /\ (/\ call.op = "extract"
                  /\ \A j \in 1..Len(DATE_PATTERNS) : ~ValidMatch(DATE_PATTERNS[j], stem)
                  /\ Exists(fs, call.source)
                  /\ call.date.via # "exif") =>
                    /\ call.date.via = "modified"
                    /\ call.date.date = FromTimestamp(fs[call.source.parts].mtime)

\* 2024_13_15_15-03-2023: the first pattern matches month 13, the third
\* pattern then gives 15 March 2023.
C9_Witness ==
    /\ call.op = "filename"
    /\ Name(call.source) = NMonth13Dmy
    /\ call.date = [date |-> Date(2023, 3, 15), via |-> "filename"]

\* C10: a name with an unseparated YYYYMMDD, with or without IMG_ / VID_ in
\* front, and no embedded metadata resolves to that date, from the filename.
C10_CompactDateFromFilename ==
    (/\ call.op = "extract"
     /\ Name(call.source) \in {NImgTime, NImg, NVid, NCompact}
     /\ Exists(fs, call.source)
     /\ fs[call.source.parts].exif = "none") =>
        call.date = [date |-> Date(2024, 3, 15), via |-> "filename"]

\* C11: extract_date returns the result of the first source that succeeds,
\* in the order EXIF (consulted for an image when Pillow is there), filename
\* pattern, modification time, counts that source in its stats, and uses a
\* later source only when every earlier one failed; None when all fail.
C11_FirstSourceWins ==
    call.op = "extract" =>
        LET p == call.source
            exif == IF pillow /\ IsImage(p) THEN ExtractFromExif(fs, p) ELSE ValueError
            name == ExtractFromFilename(p)
            mtime == ExtractFromModificationTime(fs, p)
        IN  /\ exif.ok => call.date = [date |-> exif.date, via |-> "exif"]
            /\ (~exif.ok /\ name.ok) => call.date = [date |-> name.date, via |-> "filename"]
            /\ (~exif.ok /\ ~name.ok /\ mtime.ok) =>
                  call.date = [date |-> mtime.date, via |-> "modified"]
            /\ (~exif.ok /\ ~name.ok /\ ~mtime.ok) => call.date.via = "failed"
            /\ dstats = [IdleDstats EXCEPT ![call.date.via] = 1]

\* The tags of a file with every tag that does not parse taken away.
MalformedRemoved(exif_data) ==
    [t36867 |-> IF exif_data.t36867 # Absent /\ ~Strptime(exif_data.t36867, FmtExif).ok
                THEN Absent ELSE exif_data.t36867,
     t306 |-> IF exif_data.t306 # Absent /\ ~Strptime(exif_data.t306, FmtExif).ok
              THEN Absent ELSE exif_data.t306]

\* C18: extract_date returns for a file with a malformed DateTimeOriginal or
\* DateTime tag what it returns for the same file without that tag, and
\* raises nothing.
C18_MalformedAsAbsent ==
    (call.op = "extract" /\ IsFile(fs, call.source)) =>
        \A key \in ExifKeys :
            ExifData(key) = MalformedRemoved(ExifData(fs[call.source.parts].exif)) =>
                call.date = ExtractDate([fs EXCEPT ![call.source.parts].exif = key],
                                        pillow, call.source)

\* photo_2024-03-15.jpg with DateTimeOriginal 2023:01:05 and a modification
\* time in 2024: the EXIF date is returned, not the date of the name.
C11_Witness ==
    /\ call.op = "extract" /\ pillow
    /\ Name(call.source) = NDashed
    /\ Exists(fs, call.source)
    /\ fs[call.source.parts].exif = "original"
    /\ fs[call.source.parts].perm = "rw"
    /\ fs[call.source.parts].mtime = March15
    /\ ExtractFromFilename(call.source).date = Date(2024, 3, 15)
    /\ call.date = [date |-> Date(2023, 1, 5), via |-> "exif"]

(***************************************************************************)
(* Direct calls of DuplicateDetector.scan_files and find_duplicates.       *)
(***************************************************************************)
DirA == <<"a">>

DirB == <<"b">>

DetPaths == {<<DirA, NX>>, <<DirB, NX>>, <<NDashed>>, <<NVid>>}

InitDetect ==
    /\ \E c2 \in {"c1", "c2"}, perm \in {"rw", "noread"} :
         fs = TreeOf({ At(<<DirA, NX>>, FileEntry(1, "c1", 1, March15, "none", "rw")),
                       At(<<DirB, NX>>, FileEntry(2, c2, 1, March15, "none", "rw")),
                       At(<<NDashed>>, FileEntry(3, "c2", 1, Jan5, "none", "rw")),
                       At(<<NVid>>, FileEntry(4, "c1", 1, Jan5, "none", perm)) }, {})
    /\ pillow = FALSE
    /\ obj = IdleObj
    /\ pc = "detect"
    /\ media_files = <<>>
    /\ duplicates = <<>>
    /\ loc = IdleLoc
    /\ det = IdleDet
    /\ dstats = IdleDstats
    /\ call = NoCall
    /\ hist = IdleHist
    /\ run = 0
    /\ gui = IdleGui
    /\ walk = IdleWalk

DetectUnchanged == UNCHANGED <<fs, pillow, obj, pc, media_files, duplicates, loc, dstats, hist, run, gui, walk>>

SeqsUpTo(S, n) == UNION {[1..k -> S] : k \in 0..n}

\* scan_files(files)
ScanCall ==
    /\ call.n < MaxDetectCalls
    /\ \E files \in SeqsUpTo({MkPath("abs", q) : q \in DetPaths}, MaxScanLen) :
         /\ det' = ScanFiles(fs, det, files)
         /\ call' = [NoCall EXCEPT !.op = "scan", !.files = files, !.n = call.n + 1,
                                   !.ops = Append(call.ops, "scan")]
    /\ DetectUnchanged

\* find_duplicates()
FindCall ==
    /\ call.n < MaxDetectCalls
    /\ det' = FindDuplicates(det)
    /\ call' = [NoCall EXCEPT !.op = "find", !.files = det'.duplicates, !.n = call.n + 1,
                              !.ops = Append(call.ops, "find")]
    /\ DetectUnchanged

\* get_statistics()
StatsCall ==
    /\ call.n < MaxDetectCalls
    /\ call' = [NoCall EXCEPT !.op = "stats", !.stats = GetStatistics(fs, det),
                              !.n = call.n + 1, !.ops = Append(call.ops, "stats")]
    /\ UNCHANGED det
    /\ DetectUnchanged

NextDetect == ScanCall \/ FindCall \/ StatsCall

SpecDetect == InitDetect /\ [][NextDetect]_vars

Hashed(fsys, files) == SelectSeq(files, LAMBDA f : CalculateFileHash(fsys, f).ok)

WithDigest(fsys, files, digest) ==
    SelectSeq(files, LAMBDA f : CalculateFileHash(fsys, f) = [ok |-> TRUE, digest |-> digest])

DigestsOf(fsys, files) ==
    {CalculateFileHash(fsys, files[i]).digest : i \in {j \in 1..Len(files) : CalculateFileHash(fsys, files[j]).ok}}

\* C23: after scan_files(B), whatever was called before, the map returned
\* and what get_duplicate_groups, get_statistics and find_duplicates report
\* are what a new detector reports after scan_files(B).
C23_ScanClearsPriorState ==
    call.op = "scan" =>
        LET fresh == ScanFiles(fs, IdleDet, call.files)
        IN  /\ det.hash_map = fresh.hash_map
            /\ GetDuplicateGroups(det) = GetDuplicateGroups(fresh)
            /\ FindDuplicates(det).duplicates = FindDuplicates(fresh).duplicates
            /\ GetStatistics(fs, det) = GetStatistics(fs, fresh)

\* C24: get_statistics called right after scan_files(files) and
\* find_duplicates reports total_files = the number of entries of files that
\* were hashed, unique_files = the number of their distinct digests, and
\* duplicate_count = total_files - unique_files.
C24_StatisticsAfterFind ==
    (call.op = "stats" /\ Len(call.ops) >= 3
       /\ call.ops[Len(call.ops) - 1] = "find" /\ call.ops[Len(call.ops) - 2] = "scan") =>
        /\ call.stats.total_files = Len(Hashed(fs, det.scanned))
        /\ call.stats.unique_files = Cardinality(DigestsOf(fs, det.scanned))
        /\ call.stats.duplicate_count = call.stats.total_files - call.stats.unique_files

\* scan_files of a/x.jpg, b/x.jpg with the same content and an unreadable
\* VID file: two files hashed, one digest, one duplicate.
C24_Witness ==
    /\ call.op = "stats" /\ call.ops = <<"scan", "find", "stats">>
    /\ det.scanned = <<MkPath("abs", <<DirA, NX>>), MkPath("abs", <<NVid>>),
                       MkPath("abs", <<DirB, NX>>)>>
    /\ fs[<<NVid>>].perm = "noread" /\ fs[<<DirB, NX>>].content = "c1"
    /\ call.stats.total_files = 2 /\ call.stats.unique_files = 1
    /\ call.stats.duplicate_count = 1

\* The number of times path f stands in the groups of the map.
TimesGrouped(hash_map, f) ==
    Cardinality({<<k, i>> \in (1..Len(hash_map)) \X (1..CountFiles(hash_map, 1)) :
                    i <= Len(hash_map[k].files) /\ hash_map[k].files[i] = f})

\* C25: after scan_files(files), whatever files lists and however often,
\* every hashed file stands in the groups exactly once, and find_duplicates
\* returns no path that is the first (kept) path of a group.
C25_EachFileInOneGroupOnce ==
    /\ call.op \in {"scan", "find"} =>
          \A i \in 1..Len(det.scanned) :
              CalculateFileHash(fs, det.scanned[i]).ok =>
                  TimesGrouped(det.hash_map, det.scanned[i]) = 1
    /\ call.op = "find" =>
          \A i \in 1..Len(call.files) : \A k \in 1..Len(det.hash_map) :
              call.files[i] # det.hash_map[k].files[1]

\* C4: find_duplicates after scan_files(files) returns, for every digest,
\* the hashed files of that digest in input order without the first one:
\* n - 1 of a group of n, none of a group of one.
C4_AllButFirst ==
    call.op = "find" =>
        LET files == det.scanned
            result == call.files
        IN  /\ \A i \in 1..Len(result) : CalculateFileHash(fs, result[i]).ok
            /\ \A digest \in DigestsOf(fs, files) :
                 WithDigest(fs, result, digest) = Tail(WithDigest(fs, files, digest))
            /\ Len(result) = Len(Hashed(fs, files)) - Cardinality(DigestsOf(fs, files))

\* Three files with the same bytes were scanned: the second and the third
\* are returned.
C4_Witness ==
    /\ call.op = "find"
    /\ det.scanned = <<MkPath("abs", <<DirA, NX>>), MkPath("abs", <<DirB, NX>>),
                       MkPath("abs", <<NVid>>)>>
    /\ call.files = <<MkPath("abs", <<DirB, NX>>), MkPath("abs", <<NVid>>)>>

(***************************************************************************)
(* MediaOrganiser.process, run after run on one tree.                      *)
(***************************************************************************)
Y2024 == <<"2", "0", "2", "4">>

M03 == <<"0", "3">>

\* What the tree can hold: two photos of the same name, bytes and date in
\* two directories, a photo already filed under 2024/03, a photo with a date
\* in its name and in its EXIF data, a video that cannot be removed from
\* where it is, a photo that cannot be read, a .DS_Store file.
ProcFiles ==
    { At(<<DirA, NX>>, FileEntry(1, "c1", 1, March15, "none", "rw")),
      At(<<DirB, NX>>, FileEntry(2, "c1", 1, March15, "none", "rw")),
      At(<<Y2024, M03, NX>>, FileEntry(3, "c2", 2, March15, "none", "rw")),
      At(<<NDashed>>, FileEntry(4, "c2", 2, Jan5, "original", "rw")),
      At(<<DirA, NVid>>, FileEntry(5, "c1", 1, Jan5, "none", "locked")),
      At(<<NImg>>, FileEntry(6, "c1", 1, Nov25, "none", "noread")),
      At(<<DirB, DS_Store>>, FileEntry(7, "c3", 1, Jan5, "none", "rw")) }

\* An empty directory.
ProcDirs == { At(<<DirE>>, DirEntry) }

OrganizeModes == {"none", "year", "year_month", "year_month_day"}

ProcTrees ==
    { TreeOf(S \cap ProcFiles, {d.parts : d \in S \cap ProcDirs}) :
        S \in SubsetsUpTo(ProcFiles \cup ProcDirs, MaxFiles) }

\* A root path that names a regular file.
RootIsFile == [q \in {<<>>} |-> FileEntry(8, "c1", 1, March15, "none", "rw")]

\* MediaOrganiser(root_path, organize_mode, remove_duplicates, dry_run)
NewOrganiser(root_path, organize_mode, remove_duplicates, dry_run) ==
    [IdleObj EXCEPT !.root_path = root_path, !.organize_mode = organize_mode,
                    !.remove_duplicates = remove_duplicates, !.dry_run = dry_run]

Init ==
    /\ fs \in ProcTrees \cup {EmptyFs, RootIsFile}
    /\ pillow \in BOOLEAN
    /\ \E a \in Anchors, mode \in OrganizeModes, rd \in BOOLEAN, dry \in BOOLEAN :
         obj = NewOrganiser(MkPath(a, <<>>), mode, rd, dry)
    /\ pc = "start"
    /\ media_files = <<>>
    /\ duplicates = <<>>
    /\ loc = IdleLoc
    /\ det = IdleDet
    /\ dstats = IdleDstats
    /\ call = NoCall
    /\ hist = [IdleHist EXCEPT !.fs0 = fs]
    /\ run = 1
    /\ gui = IdleGui
    /\ walk = IdleWalk

\* process, lines 83-88: the scan; InvalidPathError leaves process.
Scan ==
    /\ pc = "start"
    /\ LET r == ScanMediaFiles(fs, obj.root_path)
       IN  IF ~r.ok
           THEN /\ pc' = "raised"
                /\ UNCHANGED <<media_files, obj, hist>>
           ELSE \E files \in r.lists :
                  /\ media_files' = files
                  /\ obj' = [obj EXCEPT !.stats.total_files = Len(files)]
                  /\ hist' = [hist EXCEPT !.scan = files, !.phases = Append(@, "scanning")]
                  /\ pc' = IF files = <<>> THEN "done"
                           ELSE IF obj.remove_duplicates THEN "duplicates"
                           ELSE AfterDuplicates(obj)
    /\ loc' = [IdleLoc EXCEPT !.idx = 1]
    /\ UNCHANGED <<fs, pillow, duplicates, det, dstats, call, run, gui, walk>>

\* _process_duplicates, lines 118-139: scan_files, find_duplicates, and the
\* returns when there is nothing to remove or in a dry run.
ProcessDuplicates ==
    /\ pc = "duplicates"
    /\ det' = FindDuplicates(ScanFiles(fs, det, media_files))
    /\ duplicates' = det'.duplicates
    /\ obj' = [obj EXCEPT !.stats.duplicates_found = Len(duplicates')]
    /\ pc' = IF duplicates' = <<>> \/ obj.dry_run THEN "filter" ELSE "remove"
    /\ loc' = [loc EXCEPT !.idx = 1, !.removed_count = 0]
    /\ hist' = [hist EXCEPT !.phases = Append(@, "deduplicating")]
    /\ UNCHANGED <<fs, pillow, media_files, dstats, call, run, gui, walk>>

\* _process_duplicates, lines 143-152: one iteration of the removal loop.
\* An OSError of stat is not a FileOperationError: it ends the method in
\* the outer except clause.
RemoveDuplicate ==
    /\ pc = "remove"
    /\ loc.idx <= Len(duplicates)
    /\ LET dup_path == duplicates[loc.idx]
           r == SafeDeleteFile(fs, dup_path)
       IN  IF ~Exists(fs, dup_path)
           THEN /\ obj' = [obj EXCEPT !.stats.errors = @ + 1]
                /\ pc' = "filter"
                /\ hist' = [hist EXCEPT !.tried = Append(@, Tried("delete", dup_path, "stat"))]
                /\ UNCHANGED <<fs, loc>>
           ELSE IF r.ok
           THEN /\ fs' = r.fs
                /\ loc' = [loc EXCEPT !.idx = @ + 1, !.removed_count = @ + 1]
                /\ obj' = [obj EXCEPT !.stats.space_freed =
                                          @ + fs[Follow(fs, dup_path.parts)].size]
                /\ hist' = [hist EXCEPT !.deleted = @ \cup {dup_path},
                                         !.tried = Append(@, Tried("delete", dup_path, "none"))]
                /\ pc' = pc
           ELSE /\ obj' = [obj EXCEPT !.stats.errors = @ + 1]
                /\ loc' = [loc EXCEPT !.idx = @ + 1]
                /\ hist' = [hist EXCEPT !.failed = @ \cup {dup_path},
                                         !.tried = Append(@, Tried("delete", dup_path, "delete"))]
                /\ pc' = pc
                /\ UNCHANGED fs
    /\ UNCHANGED <<pillow, media_files, duplicates, det, dstats, call, run, gui, walk>>

\* _process_duplicates, line 154: after the loop.
RemoveEnd ==
    /\ pc = "remove"
    /\ loc.idx > Len(duplicates)
    /\ obj' = [obj EXCEPT !.stats.duplicates_removed = loc.removed_count]
    /\ pc' = "filter"
    /\ UNCHANGED <<fs, pillow, media_files, duplicates, loc, det, dstats, call, hist, run, gui, walk>>

\* process, line 94: the files that are still there.
UpdateFileList ==
    /\ pc = "filter"
    /\ media_files' = SelectSeq(media_files, LAMBDA f : Exists(fs, f))
    /\ pc' = AfterDuplicates(obj)
    /\ loc' = [loc EXCEPT !.idx = 1, !.organized_count = 0]
    /\ UNCHANGED <<fs, pillow, obj, duplicates, det, dstats, call, hist, run, gui, walk>>

\* _organize_files, lines 167-197: one iteration of the loop.
OrganizeFile ==
    /\ pc = "organize"
    /\ loc.idx <= Len(media_files)
    /\ \E d \in {ExtractDate(fs, pillow, media_files[loc.idx])} :
       \E r \in {OrganizeOne(fs, obj, media_files[loc.idx], d)} :
       LET file_path == media_files[loc.idx]
       IN  /\ fs' = r.fs
           /\ dstats' = [dstats EXCEPT ![r.via] = @ + 1]
           /\ loc' = [loc EXCEPT !.idx = @ + 1,
                                 !.organized_count =
                                    IF r.outcome = "organized" THEN @ + 1 ELSE @]
           /\ obj' = [obj EXCEPT !.stats.errors = IF r.outcome = "error" THEN @ + 1 ELSE @]
           /\ hist' = [hist EXCEPT
                 !.plans = IF r.outcome = "organized"
                           THEN Append(@, [src |-> file_path, dst |-> r.dst,
                                           date |-> d.date,
                                           existed |-> Exists(fs, r.dst)])
                           ELSE @,
                 !.failed = IF r.outcome = "error" THEN @ \cup {file_path} ELSE @,
                 !.tried = Append(@, Tried("organize", file_path,
                                           CASE r.outcome = "error" -> "move"
                                             [] r.outcome = "no_date" -> "date"
                                             [] OTHER -> "none"))]
    /\ UNCHANGED <<pillow, pc, media_files, duplicates, det, call, run, gui, walk>>

\* _organize_files, line 199: after the loop.
OrganizeEnd ==
    /\ pc = "organize"
    /\ loc.idx > Len(media_files)
    /\ obj' = [obj EXCEPT !.stats.files_organized = loc.organized_count]
    /\ pc' = "cleanup"
    /\ hist' = [hist EXCEPT !.phases = Append(@, "organizing")]
    /\ UNCHANGED <<fs, pillow, media_files, duplicates, loc, det, dstats, call, run, gui, walk>>

\* process, lines 101-107: the empty directories, then the return.
CleanUp ==
    /\ pc = "cleanup"
    /\ LET r == RemoveEmptyDirectories(fs, obj.root_path)
       IN  IF obj.dry_run
           THEN UNCHANGED <<fs, obj>>
           ELSE /\ fs' = r.fs
                /\ obj' = [obj EXCEPT !.stats.empty_folders_removed = r.removed_count]
    /\ pc' = "done"
    /\ hist' = [hist EXCEPT !.phases = IF obj.dry_run THEN @ ELSE Append(@, "pruning")]
    /\ UNCHANGED <<pillow, media_files, duplicates, loc, det, dstats, call, run, gui, walk>>

\* A new MediaOrganiser with the same arguments is run on the tree.
NewRun ==
    /\ pc = "done"
    /\ run < MaxRuns
    /\ run' = run + 1
    /\ obj' = NewOrganiser(obj.root_path, obj.organize_mode, obj.remove_duplicates,
                           obj.dry_run)
    /\ pc' = "start"
    /\ media_files' = <<>>
    /\ duplicates' = <<>>
    /\ loc' = IdleLoc
    /\ det' = IdleDet
    /\ dstats' = IdleDstats
    /\ hist' = [IdleHist EXCEPT !.fs0 = fs]
    /\ UNCHANGED <<fs, pillow, call, gui, walk>>

Next ==
    \/ Scan
    \/ ProcessDuplicates
    \/ RemoveDuplicate
    \/ RemoveEnd
    \/ UpdateFileList
    \/ OrganizeFile
    \/ OrganizeEnd
    \/ CleanUp
    \/ NewRun

Spec == Init /\ [][Next]_vars

(***************************************************************************)
(* One run of process on a tree that another process works on as well:     *)
(* once, between two steps of process, a file of the tree is removed.      *)
(***************************************************************************)
Vanish ==
    /\ pc \in {"duplicates", "remove", "filter", "organize"}
    /\ hist.vanished = {}
    /\ \E q \in {l \in DOMAIN fs : fs[l].kind = "file" /\ fs[l].perm # "locked"} :
         /\ fs' = Remove(fs, q)
         /\ hist' = [hist EXCEPT !.vanished = {q}]
    /\ UNCHANGED <<pillow, obj, pc, media_files, duplicates, loc, det, dstats, call, run, gui, walk>>

NextEnv ==
    \/ Scan
    \/ ProcessDuplicates
    \/ RemoveDuplicate
    \/ RemoveEnd
    \/ UpdateFileList
    \/ OrganizeFile
    \/ OrganizeEnd
    \/ CleanUp
    \/ Vanish

SpecEnv == Init /\ [][NextEnv]_vars

(***************************************************************************)
(* A dry run of process, followed by a run with dry_run=False of a new     *)
(* MediaOrganiser with the same other arguments on the same tree.          *)
(***************************************************************************)
InitDryReal ==
    /\ fs \in ProcTrees \cup {EmptyFs, RootIsFile}
    /\ pillow \in BOOLEAN
    /\ \E a \in Anchors, mode \in OrganizeModes, rd \in BOOLEAN :
         obj = NewOrganiser(MkPath(a, <<>>), mode, rd, TRUE)
    /\ pc = "start"
    /\ media_files = <<>>
    /\ duplicates = <<>>
    /\ loc = IdleLoc
    /\ det = IdleDet
    /\ dstats = IdleDstats
    /\ call = NoCall
    /\ hist = [IdleHist EXCEPT !.fs0 = fs]
    /\ run = 1
    /\ gui = IdleGui
    /\ walk = IdleWalk

\* The dry run has returned its statistics; the real run starts.
RealRun ==
    /\ pc = "done"
    /\ obj.dry_run
    /\ run' = run + 1
    /\ obj' = NewOrganiser(obj.root_path, obj.organize_mode, obj.remove_duplicates, FALSE)
    /\ pc' = "start"
    /\ media_files' = <<>>
    /\ duplicates' = <<>>
    /\ loc' = IdleLoc
    /\ det' = IdleDet
    /\ dstats' = IdleDstats
    /\ hist' = [IdleHist EXCEPT !.fs0 = fs,
                                !.dry = [stats |-> obj.stats, scan |-> hist.scan,
                                         duplicates |-> duplicates]]
    /\ UNCHANGED <<fs, pillow, call, gui, walk>>

NextDryReal ==
    \/ Scan
    \/ ProcessDuplicates
    \/ RemoveDuplicate
    \/ RemoveEnd
    \/ UpdateFileList
    \/ OrganizeFile
    \/ OrganizeEnd
    \/ CleanUp
    \/ RealRun

SpecDryReal == InitDryReal /\ [][NextDryReal]_vars

\* C30: when the real run that follows a dry run on the same tree has
\* been given the files in the same order, it returns the duplicates_found
\* and the files_organized that the dry run returned; and no file that a
\* dry run lists as a duplicate to remove is counted as organized by it.
C30_DryRunReportsRealRun ==
    /\ (pc = "done" /\ ~obj.dry_run /\ run = 2 /\ hist.scan = hist.dry.scan) =>
         /\ obj.stats.duplicates_found = hist.dry.stats.duplicates_found
         /\ obj.stats.files_organized = hist.dry.stats.files_organized
    /\ (pc = "done" /\ obj.dry_run) =>
         \A j \in 1..Len(hist.plans) : \A i \in 1..Len(duplicates) :
           hist.plans[j].src # duplicates[i]

(***************************************************************************)
(* Direct calls of safe_delete_file, and process with remove_duplicates    *)
(* and no organizing, on trees that hold symbolic links.                   *)
(***************************************************************************)
LinkFiles ==
    { At(<<DirA, NX>>, FileEntry(1, "c1", 1, March15, "none", "rw")),
      At(<<DirB, NX>>, FileEntry(2, "c1", 1, March15, "none", "rw")),
      At(<<NZ>>, FileEntry(3, "c2", 2, Jan5, "none", "locked")),
      At(<<NT>>, LinkEntry(<<DirA, NX>>)),
      At(<<DirB, NPhoto>>, LinkEntry(<<NZ>>)) }

LinkDirs == { At(<<DirE>>, DirEntry) }

LinkTrees ==
    { TreeOf(S \cap LinkFiles, {d.parts : d \in S \cap LinkDirs}) :
        S \in SubsetsUpTo(LinkFiles \cup LinkDirs, MaxFiles) }

DeletePaths == {f.parts : f \in LinkFiles \cup LinkDirs}

InitDelete ==
    /\ fs \in LinkTrees
    /\ pillow = FALSE
    /\ \E a \in Anchors, dry \in BOOLEAN :
         obj = NewOrganiser(MkPath(a, <<>>), "none", TRUE, dry)
    /\ pc = "start"
    /\ media_files = <<>>
    /\ duplicates = <<>>
    /\ loc = IdleLoc
    /\ det = IdleDet
    /\ dstats = IdleDstats
    /\ call = NoCall
    /\ hist = [IdleHist EXCEPT !.fs0 = fs]
    /\ run = 1
    /\ gui = IdleGui
    /\ walk = IdleWalk

\* safe_delete_file(file_path), called on the tree before process runs.
DeleteCall ==
    /\ pc = "start"
    /\ call.n < MaxCalls
    /\ \E p \in DeletePaths, a \in Anchors :
       \E r \in {SafeDeleteFile(fs, MkPath(a, p))} :
         /\ fs' = r.fs
         /\ call' = [NoCall EXCEPT !.op = "delete", !.source = MkPath(a, p),
                                   !.ok = r.ok, !.pre = fs, !.n = call.n + 1]
         /\ hist' = [hist EXCEPT !.fs0 = r.fs]
    /\ UNCHANGED <<pillow, obj, pc, media_files, duplicates, loc, det, dstats, run, gui, walk>>

NextDelete ==
    \/ DeleteCall
    \/ Scan
    \/ ProcessDuplicates
    \/ RemoveDuplicate
    \/ RemoveEnd
    \/ UpdateFileList
    \/ CleanUp

SpecDelete == InitDelete /\ [][NextDelete]_vars

\* C29: a successful safe_delete_file(p) removes the directory entry p and
\* nothing else, a failed one changes nothing, also when p is a symbolic
\* link; and after the deduplication phase the file kept of every group of
\* identical files is still there with the bytes it had.
C29_DeleteRemovesOnlyThePath ==
    /\ (pc = "start" /\ call.op = "delete") =>
         fs = IF call.ok THEN Remove(call.pre, call.source.parts) ELSE call.pre
    /\ (pc \in {"filter", "cleanup", "done"} /\ ~obj.dry_run) =>
         \A k \in 1..Len(det.hash_map) :
           /\ CalculateFileHash(fs, det.hash_map[k].files[1]).ok
           /\ CalculateFileHash(fs, det.hash_map[k].files[1])
                = CalculateFileHash(hist.fs0, det.hash_map[k].files[1])

(***************************************************************************)
(* The window of gui_file_organiser.py: the Run button starts a worker     *)
(* thread that runs MediaOrganizer.run of file_organiser.py, the Cancel    *)
(* button sets cancel_event.  obj holds the options chosen in the window   *)
(* and, once the worker has made it, the MediaOrganizer.                   *)
(***************************************************************************)
InitGui ==
    /\ fs \in ProcTrees \cup {EmptyFs, RootIsFile}
    /\ pillow = FALSE
    /\ \E mode \in OrganizeModes, rd \in BOOLEAN, dry \in BOOLEAN :
         obj = NewOrganiser(MkPath("abs", <<>>), mode, rd, dry)
    /\ pc = "idle"
    /\ media_files = <<>>
    /\ duplicates = <<>>
    /\ loc = IdleLoc
    /\ det = IdleDet
    /\ dstats = IdleDstats
    /\ call = NoCall
    /\ hist = IdleHist
    /\ run = 0
    /\ gui = IdleGui
    /\ walk = IdleWalk

GuiUnchanged == UNCHANGED <<pillow, media_files, det, dstats, call>>

\* A directory being walked: phase "select" yields the entries of the
\* directory, "recurse" goes into its subdirectories, "pass" is os.walk.
\* pending is what was listed and has not been taken yet; scandir lists in
\* no particular order, so any pending entry can be the next.
Frame(dir, phase, pending) == [dir |-> dir, phase |-> phase, pending |-> pending]

Top(stack) == stack[Len(stack)]

SubDirs(fsys, d) == {q \in Listing(fsys, d) : fsys[q].kind = "dir"}

\* One file operation that was applied to the tree.
Op(kind, path) == [kind |-> kind, path |-> path]

\* start, lines 101-112 (the Run button is enabled).
Start ==
    /\ gui.worker = "none"
    /\ run < MaxRuns
    /\ run' = run + 1
    /\ gui' = [gui EXCEPT !.cancel_event = FALSE, !.worker = "started",
                          !.cancel_at = -1, !.error = FALSE]
    /\ pc' = "worker"
    /\ hist' = [IdleHist EXCEPT !.fs0 = fs]
    /\ UNCHANGED <<fs, obj, duplicates, loc, walk>>
    /\ GuiUnchanged

\* cancel, lines 114-116 (the Cancel button is enabled); pressed once.
Cancel ==
    /\ gui.worker = "started"
    /\ ~gui.cancel_event
    /\ gui' = [gui EXCEPT !.cancel_event = TRUE,
                          !.log = Append(@, "cancel_requested"),
                          !.cancel_at = Len(hist.ops)]
    /\ UNCHANGED <<fs, obj, pc, duplicates, loc, hist, run, walk>>
    /\ GuiUnchanged

\* run_organizer, lines 119-133: the MediaOrganizer is made and run unless
\* cancel_event is set by now.
RunOrganizer ==
    /\ pc = "worker"
    /\ obj' = NewOrganiser(obj.root_path, obj.organize_mode, obj.remove_duplicates,
                           obj.dry_run)
    /\ pc' = IF gui.cancel_event THEN "report" ELSE "run"
    /\ UNCHANGED <<fs, duplicates, loc, hist, run, gui, walk>>
    /\ GuiUnchanged

\* run, lines 305-320: the checks of the path.
MO_Run ==
    /\ pc = "run"
    /\ pc' = IF ~Exists(fs, obj.root_path) \/ ~IsDir(fs, obj.root_path) THEN "report"
             ELSE IF obj.remove_duplicates THEN "find"
             ELSE "organize"
    /\ UNCHANGED <<fs, obj, duplicates, loc, hist, run, gui, walk>>
    /\ GuiUnchanged

\* The lists self.path.rglob('*') can give of the media files of the tree.
MO_MediaLists(fsys, path) ==
    LET found == {q \in DOMAIN fsys :
                    Below(path.parts, q) /\ IsMediaFile(fsys, MkPath(path.anchor, q))}
    IN  {[i \in 1..Len(s) |-> MkPath(path.anchor, s[i])] :
           s \in {t \in Orderings(found) : RglobOrder(fsys, t)}}

\* find_duplicates, lines 128-157, and run, lines 321-325.
MO_FindDuplicates ==
    /\ pc = "find"
    /\ \E files \in MO_MediaLists(fs, obj.root_path) :
       \E r \in {MO_HashLoop(fs, files, 1, <<>>, 0)} :
         /\ duplicates' = DuplicatesFrom(r.hash_dict, 1)
         /\ obj' = [obj EXCEPT !.stats.total_files = @ + Len(files),
                               !.stats.errors = @ + r.errors,
                               !.stats.duplicates_found = @ + Len(duplicates')]
         /\ pc' = IF duplicates' # <<>> THEN "remove" ELSE "organize"
    /\ loc' = [loc EXCEPT !.idx = 1]
    /\ UNCHANGED <<fs, hist, run, gui, walk>>
    /\ GuiUnchanged

\* remove_duplicates, lines 163-176: one turn of the loop.  stat() or
\* unlink() raising is caught and counted.
MO_RemoveDuplicates ==
    /\ pc = "remove"
    /\ loc.idx <= Len(duplicates)
    /\ LET filepath == duplicates[loc.idx] IN
         IF ~Exists(fs, filepath)
         THEN /\ obj' = [obj EXCEPT !.stats.errors = @ + 1]
              /\ UNCHANGED <<fs, hist>>
         ELSE IF obj.dry_run
         THEN UNCHANGED <<fs, obj, hist>>
         ELSE IF fs[filepath.parts].perm = "locked"
         THEN /\ obj' = [obj EXCEPT !.stats.errors = @ + 1]
              /\ UNCHANGED <<fs, hist>>
         ELSE /\ fs' = Remove(fs, filepath.parts)
              /\ obj' = [obj EXCEPT !.stats.duplicates_removed = @ + 1,
                                    !.stats.space_freed = @ + fs[filepath.parts].size]
              /\ hist' = [hist EXCEPT !.ops = Append(@, Op("unlink", filepath.parts))]
    /\ loc' = [loc EXCEPT !.idx = @ + 1]
    /\ UNCHANGED <<pc, duplicates, run, gui, walk>>
    /\ GuiUnchanged

\* run, line 328, after the loop of remove_duplicates.
MO_RemoveDuplicatesEnd ==
    /\ pc = "remove"
    /\ loc.idx > Len(duplicates)
    /\ pc' = "organize"
    /\ UNCHANGED <<fs, obj, duplicates, loc, hist, run, gui, walk>>
    /\ GuiUnchanged

\* organize_files, lines 178-186: mode 'none' returns, otherwise the walk of
\* self.path.rglob('*') starts at the root.
MO_OrganizeFiles ==
    /\ pc = "organize"
    /\ IF obj.organize_mode = "none"
       THEN pc' = "folders" /\ UNCHANGED walk
       ELSE /\ pc' = "walk"
            /\ walk' = [IdleWalk EXCEPT !.stack =
                           <<Frame(obj.root_path.parts, "select",
                                   Listing(fs, obj.root_path.parts))>>]
    /\ UNCHANGED <<fs, obj, duplicates, loc, hist, run, gui>>
    /\ GuiUnchanged

\* organize_files, lines 186-226: rglob yields the next entry of the
\* directory on top and the body of the loop runs for it.
MO_OrganizeNext ==
    /\ pc = "walk"
    /\ walk.stack # <<>>
    /\ Top(walk.stack).phase = "select"
    /\ \E p \in Top(walk.stack).pending :
       \E filepath \in {MkPath(obj.root_path.anchor, p)} :
         /\ walk' = [walk EXCEPT !.stack[Len(walk.stack)].pending = @ \ {p},
                                 !.yielded = @ \cup {p}]
         /\ IF p \in walk.yielded \/ ~IsMediaFile(fs, filepath)
            THEN UNCHANGED <<fs, obj, pc, hist, gui>>
            ELSE \E file_date \in {MO_GetFileDate(fs, pillow, filepath).date} :
                 \E r \in {MO_OrganizeOne(fs, obj, filepath, file_date)} :
                   /\ fs' = r.fs
                   /\ obj' = [obj EXCEPT
                                !.stats.files_organized =
                                    IF r.outcome = "moved" THEN @ + 1 ELSE @,
                                !.stats.errors =
                                    IF r.outcome = "error" THEN @ + 1 ELSE @]
                   /\ hist' = IF r.outcome = "moved"
                              THEN [hist EXCEPT !.ops = Append(@, Op("rename", p))]
                              ELSE hist
                   /\ pc' = IF r.outcome = "raised" THEN "report" ELSE pc
                   /\ gui' = IF r.outcome = "raised"
                             THEN [gui EXCEPT !.error = TRUE] ELSE gui
    /\ UNCHANGED <<duplicates, loc, run>>
    /\ GuiUnchanged

\* pathlib, _RecursiveWildcardSelector._iterate_directories: once the entries
\* of a directory have been yielded the directory is listed again and its
\* subdirectories are walked.
MO_WalkList ==
    /\ pc = "walk"
    /\ walk.stack # <<>>
    /\ Top(walk.stack).phase = "select"
    /\ Top(walk.stack).pending = {}
    /\ walk' = [walk EXCEPT !.stack[Len(walk.stack)] =
                   Frame(@.dir, "recurse", SubDirs(fs, @.dir))]
    /\ UNCHANGED <<fs, obj, pc, duplicates, loc, hist, run, gui>>
    /\ GuiUnchanged

\* The walk goes into a subdirectory, or leaves the directory on top; after
\* the root organize_files returns and run calls remove_empty_folders.
MO_WalkDescend ==
    /\ pc = "walk"
    /\ walk.stack # <<>>
    /\ Top(walk.stack).phase = "recurse"
    /\ IF Top(walk.stack).pending = {}
       THEN /\ walk' = [walk EXCEPT !.stack = Front(@)]
            /\ pc' = IF Len(walk.stack) = 1 THEN "folders" ELSE pc
       ELSE \E d \in Top(walk.stack).pending :
              /\ walk' = [walk EXCEPT !.stack =
                             Append([@ EXCEPT ![Len(@)].pending = @ \ {d}],
                                    Frame(d, "select", Listing(fs, d)))]
              /\ pc' = pc
    /\ UNCHANGED <<fs, obj, duplicates, loc, hist, run, gui>>
    /\ GuiUnchanged

\* remove_empty_folders, lines 235-242: a pass of os.walk(topdown=False)
\* starts at the root.
MO_RemoveEmptyFolders ==
    /\ pc = "folders"
    /\ pc' = "pass"
    /\ walk' = [stack |-> <<Frame(obj.root_path.parts, "pass",
                                 SubDirs(fs, obj.root_path.parts))>>,
                yielded |-> {}, changed |-> FALSE]
    /\ UNCHANGED <<fs, obj, duplicates, loc, hist, run, gui>>
    /\ GuiUnchanged

\* os.walk goes into a subdirectory of the directory on top.
MO_FolderNext ==
    /\ pc = "pass"
    /\ \E d \in Top(walk.stack).pending :
         walk' = [walk EXCEPT !.stack =
                    Append([@ EXCEPT ![Len(@)].pending = @ \ {d}],
                           Frame(d, "pass", IF d \in DOMAIN fs THEN SubDirs(fs, d)
                                            ELSE {}))]
    /\ UNCHANGED <<fs, obj, pc, duplicates, loc, hist, run, gui>>
    /\ GuiUnchanged

\* remove_empty_folders, lines 242-282: os.walk yields a directory below the
\* root after its subdirectories, and the body of the loop runs for it.
MO_RemoveFolder ==
    /\ pc = "pass"
    /\ Len(walk.stack) > 1
    /\ Top(walk.stack).pending = {}
    /\ \E r \in {MO_RemoveFolderOne(fs, obj, Top(walk.stack).dir)} :
         /\ fs' = r.fs
         /\ obj' = [obj EXCEPT
                      !.stats.empty_folders_removed =
                          IF r.outcome = "removed" THEN @ + 1 ELSE @,
                      !.stats.errors = IF r.outcome = "error" THEN @ + 1 ELSE @]
         /\ hist' = IF r.outcome = "removed"
                    THEN [hist EXCEPT !.ops = Append(@, Op("rmdir", Top(walk.stack).dir))]
                    ELSE hist
         /\ walk' = [walk EXCEPT !.stack = Front(@),
                                 !.changed = @ \/ r.outcome \in {"removed", "would_remove"}]
    /\ UNCHANGED <<pc, duplicates, loc, run, gui>>
    /\ GuiUnchanged

\* remove_empty_folders, lines 239-246: the root comes last and is skipped;
\* another pass follows when the pass changed something, otherwise run
\* prints the statistics and returns.
MO_PassEnd ==
    /\ pc = "pass"
    /\ Len(walk.stack) = 1
    /\ Top(walk.stack).pending = {}
    /\ pc' = IF walk.changed THEN "folders" ELSE "report"
    /\ walk' = [walk EXCEPT !.stack = <<>>]
    /\ UNCHANGED <<fs, obj, duplicates, loc, hist, run, gui>>
    /\ GuiUnchanged

\* run_organizer, lines 135-147: the worker writes the outcome to the log
\* and the buttons are reset.
WorkerReport ==
    /\ pc = "report"
    /\ gui' = [gui EXCEPT !.worker = "none",
                          !.log = Append(@, IF gui.error THEN "error"
                                            ELSE IF gui.cancel_event THEN "cancelled"
                                            ELSE "completed")]
    /\ pc' = "idle"
    /\ UNCHANGED <<fs, obj, duplicates, loc, hist, run, walk>>
    /\ GuiUnchanged

NextGui ==
    \/ Start
    \/ Cancel
    \/ RunOrganizer
    \/ MO_Run
    \/ MO_FindDuplicates
    \/ MO_RemoveDuplicates
    \/ MO_RemoveDuplicatesEnd
    \/ MO_OrganizeFiles
    \/ MO_OrganizeNext
    \/ MO_WalkList
    \/ MO_WalkDescend
    \/ MO_RemoveEmptyFolders
    \/ MO_FolderNext
    \/ MO_RemoveFolder
    \/ MO_PassEnd
    \/ WorkerReport

SpecGui == InitGui /\ [][NextGui]_vars

(***************************************************************************)
(* MediaOrganizer.run by itself, as file_organiser.py calls it from main:   *)
(* one thread that takes its steps one after the other.                     *)
(***************************************************************************)
\* Two photos with the same content and an empty directory.
RunTrees ==
    { TreeOf(S \cap ProcFiles, {d.parts : d \in S \cap ProcDirs}) :
        S \in SUBSET { At(<<DirA, NX>>, FileEntry(1, "c1", 1, March15, "none", "rw")),
                       At(<<DirB, NX>>, FileEntry(2, "c1", 1, March15, "none", "rw")),
                       At(<<DirE>>, DirEntry) } }

InitRun ==
    /\ fs \in RunTrees
    /\ pillow = FALSE
    /\ \E mode \in OrganizeModes, rd \in BOOLEAN, dry \in BOOLEAN :
         obj = NewOrganiser(MkPath("abs", <<>>), mode, rd, dry)
    /\ pc = "run"
    /\ media_files = <<>>
    /\ duplicates = <<>>
    /\ loc = IdleLoc
    /\ det = IdleDet
    /\ dstats = IdleDstats
    /\ call = NoCall
    /\ hist = [IdleHist EXCEPT !.fs0 = fs]
    /\ run = 1
    /\ gui = IdleGui
    /\ walk = IdleWalk

\* The steps of run; pc = "report" is print_statistics and the return.
NextRun ==
    \/ MO_Run
    \/ MO_FindDuplicates
    \/ MO_RemoveDuplicates
    \/ MO_RemoveDuplicatesEnd
    \/ MO_OrganizeFiles
    \/ MO_OrganizeNext
    \/ MO_WalkList
    \/ MO_WalkDescend
    \/ MO_RemoveEmptyFolders
    \/ MO_FolderNext
    \/ MO_RemoveFolder
    \/ MO_PassEnd

SpecRun == InitRun /\ [][NextRun]_vars /\ WF_vars(NextRun)

\* C26: MediaOrganizer.run comes to its end for every tree and every
\* combination of the options: the loop of remove_empty_folders ends and the
\* statistics are printed.
C26_RunTerminates == <>(pc = "report")

\* C16: once Cancel has been pressed while the worker runs, the worker applies
\* at most the file operation it was in the middle of: no more than one
\* unlink, rename or rmdir follows the request.
C16_CancelStopsOperations ==
    gui.cancel_at >= 0 => Len(hist.ops) <= gui.cancel_at + 1

\* The entries of hist.tried of one loop.
TriedIn(phase) == SelectSeq(hist.tried, LAMBDA t : t.phase = phase)

\* C14: in a completed run every failure while handling one file (stat,
\* delete, date, move) has incremented the error counter by one, every
\* duplicate was taken up by the removal loop and every file of the working
\* list by the organizing loop, whatever failed before it.
C14_ErrorsCountedRunContinues ==
    (pc = "done" /\ hist.scan # <<>>) =>
        /\ (obj.remove_duplicates /\ ~obj.dry_run) =>
              [i \in 1..Len(TriedIn("delete")) |-> TriedIn("delete")[i].path] = duplicates
        /\ obj.organize_mode # "none" =>
              [i \in 1..Len(TriedIn("organize")) |-> TriedIn("organize")[i].path] = media_files
        /\ obj.stats.errors =
              Len(SelectSeq(hist.tried, LAMBDA t : t.failure # "none"))

\* C27: when process has returned, duplicates_removed is the number of
\* duplicates the run deleted and space_freed the sum of their sizes, whatever
\* failed in the removal loop; and at every moment duplicates_removed <=
\* duplicates_found <= total_files.
C27_RemovalStatistics ==
    /\ (pc = "done" /\ hist.scan # <<>>) =>
          /\ obj.stats.duplicates_removed = Cardinality(hist.deleted)
          /\ obj.stats.space_freed =
                SumSizes(hist.fs0, SelectSeq(duplicates, LAMBDA f : f \in hist.deleted), 1)
    /\ obj.stats.duplicates_removed <= obj.stats.duplicates_found
    /\ obj.stats.duplicates_found <= obj.stats.total_files

\* C2: within one run of the organizing phase, dry-run or not, the
\* destination assigned to a file is never a path that exists on disk nor a
\* path already assigned to an earlier file of the same run (stated here for
\* a root given as a resolved path).
C2_DistinctDestinations ==
    obj.root_path.anchor = "abs" =>
        \A i \in 1..Len(hist.plans) :
            /\ ~hist.plans[i].existed
            /\ \A j \in 1..(i - 1) : hist.plans[j].dst.parts # hist.plans[i].dst.parts

\* seg is the decimal numeral of n, written without leading zeros.
IsNumeral(seg, n) ==
    /\ Len(seg) >= 1
    /\ \A i \in 1..Len(seg) : IsDigit(seg[i])
    /\ Len(seg) > 1 => seg[1] # "0"
    /\ IntOf(seg) = n

\* seg is n written with exactly two digits.
IsTwoDigits(seg, n) ==
    /\ Len(seg) = 2
    /\ IsDigit(seg[1]) /\ IsDigit(seg[2])
    /\ IntOf(seg) = n

\* C12: the directory a file is assigned to is root/y for YEAR, root/y/mm
\* for YEAR_MONTH and root/y/mm/dd for YEAR_MONTH_DAY, (y, m, d) being the
\* date resolved for the file and mm, dd having two digits; with mode NONE
\* no file is assigned a destination and no file appears at a new place.
C12_DestinationDirectory ==
    /\ \A i \in 1..Len(hist.plans) :
         LET date == hist.plans[i].date
             dir == Parent(hist.plans[i].dst)
             root == obj.root_path
             below == SubSeq(dir.parts, Len(root.parts) + 1, Len(dir.parts))
         IN  /\ dir.anchor = root.anchor
             /\ IsPrefix(root.parts, dir.parts)
             /\ obj.organize_mode = "year" =>
                   (Len(below) = 1 /\ IsNumeral(below[1], date.y))
             /\ obj.organize_mode = "year_month" =>
                   (Len(below) = 2 /\ IsNumeral(below[1], date.y)
                      /\ IsTwoDigits(below[2], date.m))
             /\ obj.organize_mode = "year_month_day" =>
                   (Len(below) = 3 /\ IsNumeral(below[1], date.y)
                      /\ IsTwoDigits(below[2], date.m) /\ IsTwoDigits(below[3], date.d))
    /\ obj.organize_mode = "none" =>
          /\ hist.plans = <<>>
          /\ obj.stats.files_organized = 0
          /\ \A q \in DOMAIN fs :
                fs[q].kind = "file" => (q \in DOMAIN hist.fs0 /\ hist.fs0[q] = fs[q])

\* A completed run by year, month and day that moved a photo of 5 January
\* 2023 to 2023/01/05 and a photo of 25 November 2023 to 2023/11/25.
C12_Witness ==
    /\ pc = "done" /\ ~obj.dry_run /\ obj.organize_mode = "year_month_day"
    /\ \E i, j \in 1..Len(hist.plans) :
         /\ hist.plans[i].date = Date(2023, 1, 5)
         /\ Parent(hist.plans[i].dst).parts =
               << <<"2", "0", "2", "3">>, <<"0", "1">>, <<"0", "5">> >>
         /\ IsFile(fs, hist.plans[i].dst)
         /\ hist.plans[j].date = Date(2023, 11, 25)
         /\ Parent(hist.plans[j].dst).parts =
               << <<"2", "0", "2", "3">>, <<"1", "1">>, <<"2", "5">> >>
         /\ IsFile(fs, hist.plans[j].dst)

\* The positions of the files that calculate_file_hash refuses.
Unhashed(fsys, files) == {i \in 1..Len(files) : ~CalculateFileHash(fsys, files[i]).ok}

\* The files of the digest groups.
Grouped(hash_map) ==
    UNION {{hash_map[k].files[i] : i \in 1..Len(hash_map[k].files)} : k \in 1..Len(hash_map)}

\* C13: after scan_files in process, a scanned file is in a digest group
\* exactly when its digest could be computed (the others are left out and
\* the batch goes on), and the error counter of the run has been incremented
\* once for every file that could not be hashed (besides once for every
\* delete that failed).
C13_HashFailuresCounted ==
    (obj.remove_duplicates /\ pc \in {"remove", "filter"}) =>
        /\ \A i \in 1..Len(hist.scan) :
             (hist.scan[i] \in Grouped(det.hash_map)) <=>
                CalculateFileHash(hist.fs0, hist.scan[i]).ok
        /\ obj.stats.errors =
             Cardinality(Unhashed(hist.fs0, hist.scan)) + Cardinality(hist.failed)

\* C19: in a run with remove_duplicates and an organize mode other than
\* NONE, a scanned file that could not be hashed is never planned for a move
\* and stays at its path, unchanged.
C19_UnhashableNotOrganized ==
    (obj.remove_duplicates /\ obj.organize_mode # "none" /\ pc # "start") =>
        \A i \in Unhashed(hist.fs0, hist.scan) :
            /\ IsFile(fs, hist.scan[i])
            /\ fs[hist.scan[i].parts] = hist.fs0[hist.scan[i].parts]
            /\ \A j \in 1..Len(hist.plans) : hist.plans[j].src # hist.scan[i]

\* C20: with remove_duplicates and no dry run, no path that find_duplicates
\* put in its list is in the list the organizing loop works on, and none is
\* the source of a move of the run.
C20_DuplicatesNotOrganized ==
    (obj.remove_duplicates /\ ~obj.dry_run /\ pc = "organize") =>
        \A i \in 1..Len(duplicates) :
            /\ \A j \in 1..Len(media_files) : media_files[j] # duplicates[i]
            /\ \A j \in 1..Len(hist.plans) : hist.plans[j].src # duplicates[i]

\* C22: a run of process on a directory that is no dry run and has returned
\* went through
\* scanning, deduplicating (when asked for), organizing (when the mode is not
\* NONE) and pruning, in this order and each once; every duplicate was taken
\* up by the removal loop before the first file was taken up by the
\* organizing loop.
C22_PhasesInOrder ==
    (pc = "done" /\ ~obj.dry_run /\ hist.phases # <<>> /\ IsDir(hist.fs0, obj.root_path)) =>
        /\ hist.phases =
              <<"scanning">>
              \o (IF obj.remove_duplicates THEN <<"deduplicating">> ELSE <<>>)
              \o (IF obj.organize_mode # "none" THEN <<"organizing">> ELSE <<>>)
              \o <<"pruning">>
        /\ \A i, j \in 1..Len(hist.tried) :
              (hist.tried[i].phase = "organize" /\ hist.tried[j].phase = "delete") => j < i
        /\ obj.remove_duplicates =>
              [i \in 1..Len(TriedIn("delete")) |-> TriedIn("delete")[i].path] = duplicates

\* C15: when the root path is missing or is not a directory, process ends
\* by raising (it never reaches its normal return) and the tree is never
\* changed.
C15_InputErrorAborts ==
    ~IsDir(hist.fs0, obj.root_path) => (pc \in {"start", "raised"} /\ fs = hist.fs0)

\* The characters of the names, by code point.
CodePoints ==
    <<
       "-", ".", "0", "1", "2", "3", "4", "5", "6", "7", "8", "9", "A",
       "B", "C", "D", "E", "F", "G", "H", "I", "J", "K", "L", "M", "N",
       "O", "P", "Q", "R", "S", "T", "U", "V", "W", "X", "Y", "Z", "_",
       "a", "b", "c", "d", "e", "f", "g", "h", "i", "j", "k", "l", "m",
       "n", "o", "p", "q", "r", "s", "t", "u", "v", "w", "x", "y", "z" >>

CodeOf(c) == CHOOSE i \in 1..Len(CodePoints) : CodePoints[i] = c

\* Name a sorts before name b, as strings are compared.
NameBefore(a, b) ==
    \E k \in 1..(Len(a) + 1) :
        /\ k <= Len(b)
        /\ \A i \in 1..(k - 1) : a[i] = b[i]
        /\ k = Len(a) + 1 \/ CodeOf(a[k]) < CodeOf(b[k])

\* The locations p and q part below the same directory, both as entries of
\* it or both in subdirectories of it.
PartAt(p, q, k) ==
    /\ k <= Len(p) /\ k <= Len(q)
    /\ \A i \in 1..(k - 1) : p[i] = q[i]
    /\ p[k] # q[k]
    /\ (Len(p) = k) = (Len(q) = k)

\* C17: the list of a scan takes the entries of every directory in the
\* order of their names, so that the file kept of a group of duplicates is
\* the earliest of the group and the files removed are the same in every run
\* on the same tree.
C17_LexicographicScan ==
    /\ \A i, j \in 1..Len(hist.scan) :
         \A k \in 1..Len(hist.scan[i].parts) :
            (i < j /\ PartAt(hist.scan[i].parts, hist.scan[j].parts, k))
                => NameBefore(hist.scan[i].parts[k], hist.scan[j].parts[k])
    /\ \A g \in 1..Len(det.hash_map) :
         \A j \in 2..Len(det.hash_map[g].files) :
         \A k \in 1..Len(det.hash_map[g].files[1].parts) :
            PartAt(det.hash_map[g].files[1].parts, det.hash_map[g].files[j].parts, k)
                => NameBefore(det.hash_map[g].files[1].parts[k],
                              det.hash_map[g].files[j].parts[k])

\* The identities of the files of a tree.
Ids(fsys) == {fsys[q].id : q \in {l \in DOMAIN fsys : fsys[l].kind = "file"}}

ScannedEntry(i) == hist.fs0[hist.scan[i].parts]

ScannedContents == {ScannedEntry(i).content : i \in 1..Len(hist.scan)}

\* What C5 says of a completed run: of the scanned files with the same
\* bytes only the first discovered is left, and duplicates_found and
\* duplicates_removed are the number of the others.  Files are told apart
\* by their identity, which is that of the tree the model starts from, so
\* the statement is made of the first run.
OneLeftOfEachContent ==
    /\ \A i \in 1..Len(hist.scan) :
         (ScannedEntry(i).id \in Ids(fs)) <=>
            (\A j \in 1..(i - 1) : ScannedEntry(j).content # ScannedEntry(i).content)
    /\ obj.stats.duplicates_found = Len(hist.scan) - Cardinality(ScannedContents)
    /\ obj.stats.duplicates_removed = Len(hist.scan) - Cardinality(ScannedContents)

C6_DryRunPurity == obj.dry_run => fs = hist.fs0

\* A completed dry run that reported a duplicate and a move.
C6_Witness ==
    /\ pc = "done" /\ obj.dry_run
    /\ obj.stats.duplicates_found > 0
    /\ obj.stats.files_organized > 0

\* C7: a second process on the same root with the same mode, after a
\* completed run that was not a dry run, moves nothing (files_organized = 0)
\* and leaves every file where it was.  Stated for trees on which no move
\* and no delete fails.
C7_SecondRunMovesNothing ==
    (/\ run = 2 /\ pc = "done" /\ ~obj.dry_run
     /\ \A q \in DOMAIN hist.fs0 : hist.fs0[q].perm # "locked") =>
        /\ obj.stats.files_organized = 0
        /\ \A q \in DOMAIN hist.fs0 :
             hist.fs0[q].kind = "file" => (q \in DOMAIN fs /\ fs[q] = hist.fs0[q])

====
